---- MODULE Spec2Model ----
(***************************************************************************)
(* Model of label_text_recognition: the confidence filter and line merger  *)
(* of ocr/ocr_runner.py and ocr/ocr_utils.py, the capture session of       *)
(* camera/camera_loop.py with the camera set-up of camera/, and the JSON   *)
(* export of exporters/json_exporter.py.                                   *)
(*                                                                         *)
(* Numbers.  Pixel coordinates are integers.  A centroid is the mean of a  *)
(* quadrilateral's four vertex coordinates (np.mean); it is held exactly   *)
(* as the SUM of the four coordinates (QuadPoints times the mean), and a   *)
(* pixel distance d compared with a difference of centroids is scaled to   *)
(* QuadPoints * d.  Confidences are held in hundredths (0.9 is 90).  A     *)
(* mean of confidences (avg_conf) is the exact fraction [sum, n].  Text is *)
(* a sequence of one-character strings.  FloatSpec alone holds the         *)
(* confidences of a capture as binary64 numbers and rounds every sum and   *)
(* quotient as the interpreter does.                                       *)
(***************************************************************************)
EXTENDS Integers, Sequences, FiniteSets

\* ------------------------------------------------------------------ bounds
\* The longest detection list the engine (or a direct caller) hands over.
MaxDets == 3

\* --------------------------------------------------------- program numbers
\* Vertices of a detection quadrilateral.
QuadPoints == 4
\* merge_words_with_boxes(image, ocr_result, y_thresh=20, x_gap_thresh=30)
DefaultYThresh == 20
DefaultXGapThresh == 30
\* len(colors) in merge_words_with_boxes
PaletteSize == 6
\* y_pos = int(line[0]["cy"]) - 10
TextRise == 10

\* ------------------------------------------------------------ input values
Pt(x, y) == [x |-> x, y |-> y]

\* Quadrilaterals the engine may report (4 ordered points each):
\*   BoxA  axis-aligned, x 10..50,   centroid y 100
\*   BoxB  axis-aligned, x 130..170, centroid y 120   (20 below BoxA)
\*   BoxC  tilted,       x 60..100,  centroid y 139.75 (19.75 below BoxB,
\*         39.75 below BoxA; 10 right of BoxA, 30 left of BoxB)
BoxA == << Pt(10, 90), Pt(50, 90), Pt(50, 110), Pt(10, 110) >>
BoxB == << Pt(130, 110), Pt(170, 110), Pt(170, 130), Pt(130, 130) >>
BoxC == << Pt(60, 129), Pt(99, 130), Pt(100, 150), Pt(61, 150) >>
Boxes == {BoxA, BoxB, BoxC}

\* Recognized texts; the second carries leading whitespace.
Texts == { << "a" >>, << " ", "b" >> }

\* A confidence as the engine reports it: a number, or a value float() rejects.
NumConf(v) == [kind |-> "float", val |-> v]
NoneConf == [kind |-> "none", val |-> 0]
NumConfs == { NumConf(50), NumConf(90) }

\* The conf_threshold values a session may be configured with.
Thresholds == {50, 90}

\* The y_thresh values a direct caller of the merger passes.
YThreshChoices == {10, 20}

Det(box, text, conf) == [box |-> box, text |-> text, conf |-> conf]

\* What a direct caller of the merger passes: every box with every text at
\* one confidence (the merger's order and grouping do not read the
\* confidence; mixed confidences reach it through run_ocr_on_image).
DirectDetections == { Det(b, t, NumConf(90)) : b \in Boxes, t \in Texts }

\* What the engine lists: every box at every numeric confidence, a second
\* text, and a detection whose confidence float() rejects.
EngineDetections ==
    { Det(b, << "a" >>, c) : b \in Boxes, c \in NumConfs }
        \cup { Det(BoxA, << " ", "b" >>, NumConf(90)),
               Det(BoxA, << "a" >>, NoneConf) }

SeqsUpTo(S, n) == UNION { [1..k -> S] : k \in 0..n }

\* --------------------------------------------------------------- helpers
Abs(n) == IF n < 0 THEN -n ELSE n

RECURSIVE SumSeq(_)
SumSeq(s) == IF s = << >> THEN 0 ELSE s[1] + SumSeq(Tail(s))

SetMin(S) == CHOOSE m \in S : \A n \in S : m <= n
SetMax(S) == CHOOSE m \in S : \A n \in S : n <= m

Front(s) == SubSeq(s, 1, Len(s) - 1)
Last(s) == s[Len(s)]

\* The members of all groups in one list.
RECURSIVE Flatten(_)
Flatten(groups) ==
    IF groups = << >> THEN << >> ELSE groups[1] \o Flatten(Tail(groups))

\* str.strip(): drop leading and trailing whitespace.
RECURSIVE LStrip(_)
LStrip(t) == IF t # << >> /\ t[1] = " " THEN LStrip(Tail(t)) ELSE t
RECURSIVE RStrip(_)
RStrip(t) == IF t # << >> /\ Last(t) = " " THEN RStrip(Front(t)) ELSE t
Strip(t) == RStrip(LStrip(t))

\* Faulty variant: the words are joined with nothing between them.
RECURSIVE JoinNoSpace(_)
JoinNoSpace(words) ==
    IF words = << >> THEN << >> ELSE words[1] \o JoinNoSpace(Tail(words))

\* " ".join(words)
RECURSIVE JoinSpace(_)
JoinSpace(words) ==
    IF words = << >> THEN << >>
    ELSE IF Len(words) = 1 THEN words[1]
    ELSE words[1] \o << " " >> \o JoinSpace(Tail(words))

\* float(conf): succeeds on a number, raises TypeError/ValueError otherwise.
FloatOk(conf) == conf.kind = "float"
FloatVal(conf) == conf.val

\* ------------------------------------------------- ocr_runner: the filter
\* Faulty variant: the except clause keeps the detection instead of skipping it.
KeepDetectionLenient(det, conf_threshold) ==
    ~ FloatOk(det.conf) \/ FloatVal(det.conf) >= conf_threshold

\* Faulty variant: a confidence equal to the threshold is dropped.
KeepDetectionStrict(det, conf_threshold) ==
    FloatOk(det.conf) /\ FloatVal(det.conf) > conf_threshold

\* Faulty variant: the comparison turned round.
KeepDetectionFlipped(det, conf_threshold) ==
    FloatOk(det.conf) /\ FloatVal(det.conf) <= conf_threshold

\* The test of the loop "for box, (text, conf) in ocr_result[0]": a detection
\* is kept when float(conf) succeeds and is >= conf_threshold; one whose conf
\* float() rejects is skipped.
KeepDetection(det, conf_threshold) ==
    FloatOk(det.conf) /\ FloatVal(det.conf) >= conf_threshold

\* The kept detections, in the order of arrival.
RECURSIVE ConfFilter(_, _)
ConfFilter(dets, conf_threshold) ==
    IF dets = << >> THEN << >>
    ELSE IF KeepDetection(dets[1], conf_threshold)
         THEN << dets[1] >> \o ConfFilter(Tail(dets), conf_threshold)
         ELSE ConfFilter(Tail(dets), conf_threshold)

\* --------------------------------------------- ocr_utils: the line merger
XCoords(box) == { box[i].x : i \in 1..Len(box) }

\* One entry of "lines": cx, cy are the vertex sums (QuadPoints * mean).
WordRecord(det) ==
    [ text  |-> Strip(det.text),
      conf  |-> FloatVal(det.conf),
      cx    |-> SumSeq([i \in 1..Len(det.box) |-> det.box[i].x]),
      cy    |-> SumSeq([i \in 1..Len(det.box) |-> det.box[i].y]),
      x_min |-> SetMin(XCoords(det.box)),
      x_max |-> SetMax(XCoords(det.box)),
      box   |-> det.box ]

BuildLines(ocr_result) == [i \in 1..Len(ocr_result) |-> WordRecord(ocr_result[i])]

\* The sort key (t["cy"], t["cx"]), compared as Python compares tuples.
CyCxLeq(a, b) == a.cy < b.cy \/ (a.cy = b.cy /\ a.cx <= b.cx)

\* list.sort is stable: an element goes after every element whose key is not
\* greater than its own.
InsertByCyCx(sorted, r) ==
    LET k == Cardinality({ i \in 1..Len(sorted) : CyCxLeq(sorted[i], r) })
    IN  SubSeq(sorted, 1, k) \o << r >> \o SubSeq(sorted, k + 1, Len(sorted))

\* Faulty variant: the sort left out, the words stay as the engine listed them.
SortNone(s) == s

RECURSIVE SortByCyCx(_)
SortByCyCx(s) ==
    IF s = << >> THEN << >> ELSE InsertByCyCx(SortByCyCx(Front(s)), Last(s))

InsertByXMin(sorted, r) ==
    LET k == Cardinality({ i \in 1..Len(sorted) : sorted[i].x_min <= r.x_min })
    IN  SubSeq(sorted, 1, k) \o << r >> \o SubSeq(sorted, k + 1, Len(sorted))

RECURSIVE SortByXMin(_)
SortByXMin(s) ==
    IF s = << >> THEN << >> ELSE InsertByXMin(SortByXMin(Front(s)), Last(s))

\* Faulty variant: the comparison made strict.
SameLineStrict(word, last, y_thresh) ==
    Abs(word.cy - last.cy) < QuadPoints * y_thresh

\* Faulty variant: the operands swapped and abs() left out.
SameLineNoAbs(word, last, y_thresh) ==
    last.cy - word.cy <= QuadPoints * y_thresh

\* abs(lines[i]["cy"] - current_line[-1]["cy"]) <= y_thresh
SameLine(word, last, y_thresh) ==
    Abs(word.cy - last.cy) <= QuadPoints * y_thresh

\* The loop "for i in range(1, len(lines))" and the append after it.
RECURSIVE GroupFrom(_, _, _, _, _)
GroupFrom(lines, i, grouped_lines, current_line, y_thresh) ==
    IF i > Len(lines) THEN Append(grouped_lines, current_line)
    ELSE IF SameLine(lines[i], Last(current_line), y_thresh)
         THEN GroupFrom(lines, i + 1, grouped_lines,
                        Append(current_line, lines[i]), y_thresh)
         ELSE GroupFrom(lines, i + 1, Append(grouped_lines, current_line),
                        << lines[i] >>, y_thresh)

\* Faulty variant: the append after the loop left out, so the last line is lost.
GroupLinesLastLost(lines, y_thresh) ==
    Front(GroupFrom(lines, 2, << >>, << lines[1] >>, y_thresh))

\* grouped_lines as it stands after line 54 (lines is sorted and not empty).
GroupLines(lines, y_thresh) ==
    GroupFrom(lines, 2, << >>, << lines[1] >>, y_thresh)

\* Faulty variant: a gap equal to x_gap_thresh still joins.
JoinsWordInclusive(prev, word, x_gap_thresh) ==
    word.x_min - prev.x_max <= x_gap_thresh

\* gap = line[j]["x_min"] - line[j - 1]["x_max"];  gap < x_gap_thresh
JoinsWord(prev, word, x_gap_thresh) == word.x_min - prev.x_max < x_gap_thresh

\* The loop "for j in range(1, len(line))" and the append after it.
RECURSIVE WordsFrom(_, _, _, _, _)
WordsFrom(line, j, merged_line_words, current_word, x_gap_thresh) ==
    IF j > Len(line) THEN Append(merged_line_words, current_word)
    ELSE IF JoinsWord(line[j - 1], line[j], x_gap_thresh)
         THEN WordsFrom(line, j + 1, merged_line_words,
                        current_word \o << " " >> \o line[j].text, x_gap_thresh)
         ELSE WordsFrom(line, j + 1, Append(merged_line_words, current_word),
                        line[j].text, x_gap_thresh)

\* merged_line_words of one line already sorted by x_min.
MergeLineWords(line, x_gap_thresh) ==
    WordsFrom(line, 2, << >>, line[1].text, x_gap_thresh)

\* float(np.mean([w["conf"] for w in line])) as the fraction sum / n.
AvgConf(line) ==
    [ sum |-> SumSeq([i \in 1..Len(line) |-> line[i].conf]), n |-> Len(line) ]

LineRecord(line_idx, line, merged_text) ==
    [ line_index |-> line_idx, text |-> merged_text, avg_conf |-> AvgConf(line) ]

\* What one pass of the loop draws on the image: a polyline per word in the
\* colour colors[line_idx % len(colors)], then the label
\* f"{line_idx}. {merged_text}" at (int(x_min), int(cy) - 10) of line[0].
Polyline(word, line_idx) ==
    [ op |-> "polylines", pts |-> word.box, color |-> line_idx % PaletteSize,
      line_index |-> line_idx, text |-> << >>,
      org |-> Pt(0, 0) ]

PutText(line_idx, line, merged_text) ==
    [ op |-> "putText", pts |-> << >>, color |-> 0,
      line_index |-> line_idx, text |-> merged_text,
      org |-> Pt(line[1].x_min, (line[1].cy \div QuadPoints) - TextRise) ]

DrawLine(line_idx, line, merged_text) ==
    [i \in 1..Len(line) |-> Polyline(line[i], line_idx)]
        \o << PutText(line_idx, line, merged_text) >>

RECURSIVE DrawAll(_, _, _)
DrawAll(sorted_lines, texts, k) ==
    IF k > Len(sorted_lines) THEN << >>
    ELSE DrawLine(k, sorted_lines[k], texts[k]) \o DrawAll(sorted_lines, texts, k + 1)

\* line.sort(key=lambda t: t["x_min"]) applied to every group, in place.
SortGroups(grouped_lines) ==
    [k \in 1..Len(grouped_lines) |-> SortByXMin(grouped_lines[k])]

\* The loop "for line_idx, line in enumerate(grouped_lines, start=1)":
\* from grouped_lines (already sorted by x_min) the word-groups of each line,
\* the records and the drawing.
LineWords(sorted_lines, x_gap_thresh) ==
    [k \in 1..Len(sorted_lines) |-> MergeLineWords(sorted_lines[k], x_gap_thresh)]

\* Faulty variant: enumerate(grouped_lines) without start=1.
MergedResultsFromZero(sorted_lines, words) ==
    [k \in 1..Len(sorted_lines) |->
        LineRecord(k - 1, sorted_lines[k], JoinSpace(words[k]))]

\* Faulty variant: the mean taken over the words of all lines ("lines" for "line").
MergedResultsMeanOfAll(sorted_lines, words) ==
    [k \in 1..Len(sorted_lines) |->
        [ line_index |-> k, text |-> JoinSpace(words[k]),
          avg_conf |-> AvgConf(SortByCyCx(Flatten(sorted_lines))) ]]

MergedResults(sorted_lines, words) ==
    [k \in 1..Len(sorted_lines) |->
        LineRecord(k, sorted_lines[k], JoinSpace(words[k]))]

MergedTexts(words) == [k \in 1..Len(words) |-> JoinSpace(words[k])]

\* grouped_lines when merge_words_with_boxes returns: the lines of a
\* non-empty detection list, each sorted by x_min.
MergedLines(ocr_result, y_thresh) ==
    SortGroups(GroupLines(SortByCyCx(BuildLines(ocr_result)), y_thresh))

\* merge_words_with_boxes as a whole: the records it returns.
MergeWordsWithBoxes(ocr_result, y_thresh, x_gap_thresh) ==
    IF ocr_result = << >> THEN << >>
    ELSE LET sorted_lines == MergedLines(ocr_result, y_thresh)
         IN  MergedResults(sorted_lines, LineWords(sorted_lines, x_gap_thresh))

\* ------------------------------------------------------------------ state
VARIABLES
    pc,              \* where the call in progress stands ("idle": none)
    caller,          \* which entry point was called: "run_ocr" | "merge" | "none"
    ocr_result,      \* what ocr_engine.ocr(...) did: raised, None, or a list of frames
    conf_threshold,  \* run_ocr_on_image's conf_threshold
    y_thresh,        \* merge_words_with_boxes's y_thresh
    x_gap_thresh,    \* merge_words_with_boxes's x_gap_thresh
    filtered,        \* the detection list handed to merge_words_with_boxes
    lines,           \* the merger's "lines" after the (cy, cx) sort
    grouped_lines,   \* the merger's "grouped_lines"
    line_words,      \* merged_line_words of every line, in line order
    merged_results,  \* the records returned
    image,           \* what has been drawn on the image passed in, in order
    message          \* run_ocr_on_image's status message

ocrVars == << pc, caller, ocr_result, conf_threshold, y_thresh, x_gap_thresh,
              filtered, lines, grouped_lines, line_words, merged_results, image,
              message >>

\* The session of start_camera_ocr().
VARIABLES
    spc,             \* where start_camera_ocr stands
    cfg,             \* the configuration snapshot read at line 118
    devices,         \* the camera indices that open on this machine
    probed,          \* the indices a VideoCapture was constructed on, in order
    cap,             \* the session's capture handle: "none" | "open" | "released"
    reads,           \* cap.read() calls made
    frame,           \* the frame of the current iteration
    live_def,        \* get_definition_score(frame) of the current iteration
    def_score,       \* the capture's def_score
    engine_log,      \* what each engine call of the current capture did
    results,         \* the capture's results
    vis_img,         \* what is drawn on the capture's vis_img
    msg,             \* the capture's msg
    last_results,    \* the last-outcome slot
    console,         \* the lines printed since the last capture trigger
    dirs,            \* the directories created
    written,         \* the artifacts written, as (kind, capture number)
    captures,        \* capture cycles started
    releases,        \* cap.release() calls made at line 374
    cfg_reads,       \* load_ocr_config() calls made
    display,         \* what is drawn on the display of the current iteration
    frame_drawn,     \* what has been drawn on the frame object itself
    last_def_score,  \* the def_score kept beside last_results
    images           \* the image contents the current capture has written

sessVars == << spc, cfg, devices, probed, cap, reads, frame, live_def,
               def_score, engine_log, results, vis_img, msg, last_results,
               console, dirs, written, captures, releases, cfg_reads,
               display, frame_drawn, last_def_score, images >>

\* A call of export_to_json(results, json_path) from the save step of a
\* capture, and the clock and the files around it.
VARIABLES
    xpc,             \* where the capture and its export stand ("idle": between captures)
    now,             \* the wall clock, in whole seconds
    ts,              \* the capture's ts (camera_loop.py:259)
    xresults,        \* the results handed to export_to_json
    xcfg,            \* the document export_all_json has read
    files,           \* the files on disk: path -> content
    txt_json_path,   \* export_all_json's txt_json_path
    bbox_json_path,  \* export_all_json's bbox_json_path
    triggers         \* captures made

expVars == << xpc, now, ts, xresults, xcfg, files, txt_json_path,
              bbox_json_path, triggers >>

\* The confidence arithmetic of one capture in binary64.
VARIABLES
    fpc,             \* where the capture stands ("idle": not started)
    py_sum,          \* how the interpreter's sum() adds floats: "naive" | "compensated"
    fcfg,            \* conf_threshold, definition_threshold, enable_console_log
    fdef_score,      \* def_score of the capture (camera_loop.py:261)
    fdets,           \* the engine's detections: a confidence and the line each falls in
    ffiltered,       \* the detections run_ocr_on_image keeps
    fresults,        \* the merger's records: the member confidences and avg_conf
    foverall_conf,   \* overall_conf (camera_loop.py:357)
    fverdict         \* the verdict printed: "none" | "blurred" | "low_confidence" | "good"

fltVars == << fpc, py_sum, fcfg, fdef_score, fdets, ffiltered, fresults,
              foverall_conf, fverdict >>

vars == << ocrVars, sessVars, expVars, fltVars >>

\* What the engine call can do.
EngineRaised == [status |-> "raised", frames |-> << >>]
EngineNone == [status |-> "none", frames |-> << >>]
EngineFrames(frames) == [status |-> "list", frames |-> frames]
NotCalled == [status |-> "not_called", frames |-> << >>]

EngineOutcomes ==
    { EngineRaised, EngineNone, EngineFrames(<< >>) }
        \cup { EngineFrames(<< dets >>) : dets \in SeqsUpTo(EngineDetections, MaxDets) }

\* "not ocr_result or not ocr_result[0]"
EngineEmpty(r) == r.status = "none" \/ r.frames = << >> \/ r.frames[1] = << >>

\* ------------------------------------------- camera_loop: session inputs
\* cap.read() calls a session is followed for.
MaxReads == 2

\* cfg.get("definition_threshold", 200)
DefaultDefinitionThreshold == 200
\* cfg.get("conf_threshold", 0.5), in hundredths
DefaultConfThreshold == 50

\* camera_index as the configuration gives it: the sentinel "auto", an
\* integer, or a value int() rejects.
AutoIndex == [kind |-> "auto", val |-> 0]
IntIndex(n) == [kind |-> "int", val |-> n]
InvalidIndex == [kind |-> "invalid", val |-> 0]
CameraIndexChoices == { AutoIndex, IntIndex(0), IntIndex(1), InvalidIndex }
\* The key left out of the document, and an integer below zero.
MissingIndex == [kind |-> "missing", val |-> 0]
LiveCameraIndexChoices == CameraIndexChoices \cup { MissingIndex, IntIndex(-1) }

\* Which camera indices open on the machine: none, or index 1 alone.
DeviceSets == { {}, {1} }

\* range(max_index) in scan_available_cameras(max_index=10)
ScanRange == 0..9
\* range(max_index + 1) in find_available_camera(max_index=10)
FindRange == 0..10

\* The configuration documents a session may read.
SessionConfigs ==
    [ conf_threshold        : Thresholds,
      definition_threshold  : {DefaultDefinitionThreshold},
      enable_console_log    : BOOLEAN,
      enable_save_output    : BOOLEAN,
      enable_retry_on_error : BOOLEAN,
      debug_image_enabled   : BOOLEAN,
      draw_bbox_on_live        : {FALSE},
      show_bbox_coords_on_live : {FALSE},
      show_definition_on_live  : {TRUE},
      camera_index          : CameraIndexChoices ]

\* The documents the live display and the camera set-up are followed on: the
\* visualize toggles and every kind of camera_index, with saving off and
\* retry-on-error on.
LiveConfigs ==
    [ conf_threshold        : {DefaultConfThreshold},
      definition_threshold  : {DefaultDefinitionThreshold},
      enable_console_log    : {TRUE},
      enable_save_output    : {FALSE},
      enable_retry_on_error : {TRUE},
      debug_image_enabled   : {FALSE},
      draw_bbox_on_live        : BOOLEAN,
      show_bbox_coords_on_live : BOOLEAN,
      show_definition_on_live  : BOOLEAN,
      camera_index          : LiveCameraIndexChoices ]

\* The values cfg.get(...) falls back to.
DefaultCfg ==
    [ conf_threshold        |-> DefaultConfThreshold,
      definition_threshold  |-> DefaultDefinitionThreshold,
      enable_console_log    |-> TRUE,
      enable_save_output    |-> TRUE,
      enable_retry_on_error |-> FALSE,
      debug_image_enabled   |-> FALSE,
      draw_bbox_on_live        |-> FALSE,
      show_bbox_coords_on_live |-> FALSE,
      show_definition_on_live  |-> TRUE,
      camera_index          |-> AutoIndex ]

\* get_definition_score(frame) of the frames the camera delivers: below, at
\* and above the definition threshold.
DefScores == {100, 200, 300}

\* A frame as read: which read delivered it and its definition score.
Frame(id, sharp) == [id |-> id, sharp |-> sharp]
NoFrame == Frame(0, 0)

\* What the engine lists for a captured frame: one detection of confidence
\* 0.5; two detections on two lines, of confidence 0.9 and 0.5; two
\* detections on one line, both 0.9.
SessionDetLists ==
    { << Det(BoxA, << "a" >>, NumConf(50)) >>,
      << Det(BoxC, << "a" >>, NumConf(50)), Det(BoxA, << " ", "b" >>, NumConf(90)) >>,
      << Det(BoxB, << "a" >>, NumConf(90)), Det(BoxA, << "a" >>, NumConf(90)) >> }

\* A list that is no list of (box, (text, conf)) entries: unpacking it raises.
EngineMalformed == [status |-> "malformed", frames |-> << >>]

\* What an engine call of a capture can do.
SessionEngineOutcomes ==
    { EngineRaised, EngineMalformed, EngineNone }
        \cup { EngineFrames(<< dets >>) : dets \in SessionDetLists }

\* What the writes of a capture's save step can do: all succeed; cv2.imwrite
\* returns False for the original image, the annotated image or the debug
\* image and writes nothing; cv2.imwrite raises; export_to_json raises.
IoFaults ==
    { "none", "origin_unwritten", "annotated_unwritten", "debug_unwritten",
      "imwrite_raises", "json_raises" }

\* The keys cv2.waitKey(1) & 0xFF reports: q, space, anything else or none.
Keys == { "q", "space", "other" }

\* ----------------------------------------------- json_exporter: inputs
\* Captures a sequence of exports is followed for, and seconds the clock is
\* followed for.
MaxTriggers == 2
MaxClock == 2

\* The document as export_all_json reads it: enable_save_output, and either
\* no export_options section or the text_json / bbox_json toggles.
ExportDocs ==
    [ enable_save_output   : BOOLEAN,
      sections             : {TRUE},
      text_enabled         : BOOLEAN,
      bbox_enabled         : BOOLEAN,
      merge_with_text_json : BOOLEAN ]
    \cup
    [ enable_save_output   : BOOLEAN,
      sections             : {FALSE},
      text_enabled         : {TRUE},
      bbox_enabled         : {TRUE},
      merge_with_text_json : {FALSE} ]

\* No document read yet.
NoDoc ==
    [ enable_save_output   |-> TRUE,
      sections             |-> FALSE,
      text_enabled         |-> TRUE,
      bbox_enabled         |-> TRUE,
      merge_with_text_json |-> FALSE ]

\* A file's path: os.path.join(directory, pattern.replace("{ts}", stamp)).
Path(dir, stem, stamp) == [dir |-> dir, stem |-> stem, stamp |-> stamp]
\* The empty string export_all_json returns for "no file".
NoPath == Path("", "", 0)

\* capture_{ts}.jpg under output_dir_images_origin and output_dir_images.
OriginPath(stamp) == Path("output_dir_images_origin", "capture", stamp)
AnnotatedPath(stamp) == Path("output_dir_images", "capture", stamp)
\* text_json.path with the pattern capture_{ts}.json, bbox_json.path with
\* bbox_{ts}.json.
TextJsonPath(stamp) == Path("text_json.path", "capture", stamp)
BboxJsonPath(stamp) == Path("bbox_json.path", "bbox", stamp)

ExportInit ==
    /\ xpc = "idle"
    /\ now = 0
    /\ ts = 0
    /\ xresults = << >>
    /\ xcfg = NoDoc
    /\ files = << >>
    /\ txt_json_path = NoPath
    /\ bbox_json_path = NoPath
    /\ triggers = 0

SessionInit ==
    /\ spc = "start"
    /\ cfg = DefaultCfg
    /\ devices = {}
    /\ probed = << >>
    /\ cap = "none"
    /\ reads = 0
    /\ frame = NoFrame
    /\ live_def = 0
    /\ def_score = 0
    /\ engine_log = << >>
    /\ results = << >>
    /\ vis_img = << >>
    /\ msg = ""
    /\ last_results = << >>
    /\ console = << >>
    /\ dirs = {}
    /\ written = {}
    /\ captures = 0
    /\ releases = 0
    /\ cfg_reads = 0
    /\ display = << >>
    /\ frame_drawn = << >>
    /\ last_def_score = 0
    /\ images = {}

\* ------------------------------------------------ binary64 confidences
\* A confidence is a binary64 number in [0.5, 1).  Such a number, and the sum
\* of a few of them, is a whole multiple of 2^-53; it is held as that
\* multiple in two limbs of 28 bits: [hi, lo] is (hi * 2^28 + lo) * 2^-53.
Limb == 268435456
Dbl(hi, lo) == [hi |-> hi, lo |-> lo]
Zero64 == Dbl(0, 0)
\* The binary64 numbers written 0.6, 0.7 and 0.9.
Conf06 == Dbl(20132659, 53687091)
Conf07 == Dbl(23488102, 107374182)
Conf09 == Dbl(30198988, 214748365)
Conf64s == {Conf06, Conf07, Conf09}
Threshold64s == {Conf06, Conf07}
\* The line of the image a detection's box falls in.
Rows == 1..MaxDets
FloatDetections == [conf : Conf64s, row : Rows]
FloatConfigs ==
    [ conf_threshold       : Threshold64s,
      definition_threshold : {DefaultDefinitionThreshold},
      enable_console_log   : BOOLEAN ]
FloatDefScores == {100, 300}
SumKinds == {"naive", "compensated"}

FloatInit ==
    /\ fpc = "idle"
    /\ py_sum = "naive"
    /\ fcfg = [conf_threshold |-> Conf06,
               definition_threshold |-> DefaultDefinitionThreshold,
               enable_console_log |-> TRUE]
    /\ fdef_score = 0
    /\ fdets = << >>
    /\ ffiltered = << >>
    /\ fresults = << >>
    /\ foverall_conf = Zero64
    /\ fverdict = "none"

Init ==
    /\ FloatInit
    /\ pc = "idle"
    /\ caller = "none"
    /\ ocr_result = NotCalled
    /\ conf_threshold = 0
    /\ y_thresh = DefaultYThresh
    /\ x_gap_thresh = DefaultXGapThresh
    /\ filtered = << >>
    /\ lines = << >>
    /\ grouped_lines = << >>
    /\ line_words = << >>
    /\ merged_results = << >>
    /\ image = << >>
    /\ message = ""
    /\ SessionInit
    /\ ExportInit

\* run_ocr_on_image(image_bgr, ocr_engine, conf_threshold, cls_enable) is
\* entered with a fresh image; the merger inside runs with its defaults.
CallRunOcr ==
    /\ UNCHANGED << sessVars, expVars, fltVars >>
    /\ pc = "idle"
    /\ \E t \in Thresholds : conf_threshold' = t
    /\ pc' = "engine"
    /\ caller' = "run_ocr"
    /\ y_thresh' = DefaultYThresh
    /\ x_gap_thresh' = DefaultXGapThresh
    /\ UNCHANGED << ocr_result, filtered, lines, grouped_lines, line_words,
                    merged_results, image, message >>

\* ocr_result = ocr_engine.ocr(image_bgr, cls=cls_enable) and the emptiness
\* test after it; an exception goes to the except clause.
EngineStep ==
    /\ UNCHANGED << sessVars, expVars, fltVars >>
    /\ pc = "engine"
    /\ \E r \in EngineOutcomes :
          /\ ocr_result' = r
          /\ IF r.status = "raised"
             THEN pc' = "returned" /\ message' = "ERROR"
             ELSE IF EngineEmpty(r)
                  THEN pc' = "returned" /\ message' = "EMPTY_NO_TEXT"
                  ELSE pc' = "filter" /\ message' = message
    /\ UNCHANGED << caller, conf_threshold, y_thresh, x_gap_thresh, filtered,
                    lines, grouped_lines, line_words, merged_results, image >>

\* The confidence filter and the "if not filtered" return.
FilterStep ==
    /\ UNCHANGED << sessVars, expVars, fltVars >>
    /\ pc = "filter"
    /\ filtered' = ConfFilter(ocr_result.frames[1], conf_threshold)
    /\ IF filtered' = << >>
       THEN pc' = "returned" /\ message' = "EMPTY_BELOW_CONF"
       ELSE pc' = "group" /\ message' = message
    /\ UNCHANGED << caller, ocr_result, conf_threshold, y_thresh, x_gap_thresh,
                    lines, grouped_lines, line_words, merged_results, image >>

\* merge_words_with_boxes(image, ocr_result, y_thresh, x_gap_thresh) called
\* directly with a list of well-formed detections, possibly empty.
CallMerge ==
    /\ UNCHANGED << sessVars, expVars, fltVars >>
    /\ pc = "idle"
    /\ \E dets \in SeqsUpTo(DirectDetections, MaxDets) : filtered' = dets
    /\ \E y \in YThreshChoices : y_thresh' = y
    /\ pc' = "group"
    /\ caller' = "merge"
    /\ UNCHANGED << ocr_result, conf_threshold, x_gap_thresh, lines,
                    grouped_lines, line_words, merged_results, image, message >>


\* merge_words_with_boxes, lines 23-54: build, the empty return, sort, group.
GroupStep ==
    /\ UNCHANGED << sessVars, expVars, fltVars >>
    /\ pc = "group"
    /\ lines' = SortByCyCx(BuildLines(filtered))
    /\ IF lines' = << >>
       THEN pc' = "returned" /\ grouped_lines' = << >>
       ELSE pc' = "render" /\ grouped_lines' = GroupLines(lines', y_thresh)
    /\ UNCHANGED << caller, ocr_result, conf_threshold, y_thresh, x_gap_thresh,
                    filtered, line_words, merged_results, image, message >>

\* merge_words_with_boxes, lines 56-112: per line the x_min sort, the
\* word-groups, the drawing and the record; then run_ocr_on_image's return.
RenderStep ==
    /\ UNCHANGED << sessVars, expVars, fltVars >>
    /\ pc = "render"
    /\ grouped_lines' = SortGroups(grouped_lines)
    /\ line_words' = LineWords(grouped_lines', x_gap_thresh)
    /\ merged_results' = MergedResults(grouped_lines', line_words')
    /\ image' = image \o DrawAll(grouped_lines', MergedTexts(line_words'), 1)
    /\ message' = IF caller = "run_ocr"
                  THEN (IF merged_results' = << >> THEN "EMPTY_MERGE" ELSE "OK")
                  ELSE message
    /\ pc' = "returned"
    /\ UNCHANGED << caller, ocr_result, conf_threshold, y_thresh, x_gap_thresh,
                    filtered, lines >>

\* The caller takes the result; the next call starts from a fresh image.
Return ==
    /\ UNCHANGED << sessVars, expVars, fltVars >>
    /\ pc = "returned"
    /\ pc' = "idle"
    /\ caller' = "none"
    /\ ocr_result' = NotCalled
    /\ conf_threshold' = 0
    /\ y_thresh' = DefaultYThresh
    /\ x_gap_thresh' = DefaultXGapThresh
    /\ filtered' = << >>
    /\ lines' = << >>
    /\ grouped_lines' = << >>
    /\ line_words' = << >>
    /\ merged_results' = << >>
    /\ image' = << >>
    /\ message' = ""

Next ==
    \/ CallRunOcr
    \/ EngineStep
    \/ FilterStep
    \/ CallMerge
    \/ GroupStep
    \/ RenderStep
    \/ Return

Spec == Init /\ [][Next]_vars

\* The merger alone, called directly.
MergeNext ==
    \/ CallMerge
    \/ GroupStep
    \/ RenderStep
    \/ Return

MergeSpec == Init /\ [][MergeNext]_vars

\* ------------------------------------------- ocr_runner: the whole call
RunResult(res, img, message_) == [results |-> res, image |-> img, message |-> message_]

\* Whether an exception is raised inside the try of run_ocr_on_image: by
\* the engine call, or by unpacking a list that holds no (box, (text, conf)).
RunRaises(r) == r.status \in {"raised", "malformed"}

\* The try body when nothing raises: the empty returns by cause, then the
\* filter, the merger (with its default thresholds) and "OK".
RunOcrBody(r, threshold) ==
    IF EngineEmpty(r)
    THEN RunResult(<< >>, << >>, "EMPTY_NO_TEXT")
    ELSE LET kept == ConfFilter(r.frames[1], threshold)
         IN  IF kept = << >>
             THEN RunResult(<< >>, << >>, "EMPTY_BELOW_CONF")
             ELSE LET sorted_lines == MergedLines(kept, DefaultYThresh)
                      words == LineWords(sorted_lines, DefaultXGapThresh)
                      merged == MergedResults(sorted_lines, words)
                  IN  RunResult(merged,
                                DrawAll(sorted_lines, MergedTexts(words), 1),
                                IF merged = << >> THEN "EMPTY_MERGE" ELSE "OK")

\* Faulty variant: no except clause, the exception leaves the function.
RunOcrOnImageUncaught(r, threshold) ==
    IF RunRaises(r) THEN RunResult(<< >>, << >>, "UNCAUGHT")
    ELSE RunOcrBody(r, threshold)

\* Faulty variant: the except clause returns the message of an empty result.
RunOcrOnImageErrorAsEmpty(r, threshold) ==
    IF RunRaises(r) THEN RunResult(<< >>, << >>, "EMPTY_NO_TEXT")
    ELSE RunOcrBody(r, threshold)

\* run_ocr_on_image(image_bgr, ocr_engine, conf_threshold, cls_enable) on a
\* fresh image: the records, what is drawn on the image returned, and the
\* message; "except Exception" turns whatever was raised into ([], image_bgr,
\* "ERROR: ...").
RunOcrOnImage(r, threshold) ==
    IF RunRaises(r) THEN RunResult(<< >>, << >>, "ERROR")
    ELSE RunOcrBody(r, threshold)

\* ------------------------------------------------ camera: init_camera(cfg)
Ascending(lo, hi) == [i \in 1..(hi - lo + 1) |-> lo + i - 1]

\* scan_available_cameras(max_index=10): the indices that open.
ScanAvailableCameras(devs) == devs \cap ScanRange

\* A camera index as resolved: None, or an integer.
NoCamera == [found |-> FALSE, index |-> 0]
CameraId(i) == [found |-> TRUE, index |-> i]

\* find_available_camera(): the first index of 0..10 that opens, or None.
FindAvailableCamera(devs) ==
    IF devs \cap FindRange = {} THEN NoCamera
    ELSE CameraId(SetMin(devs \cap FindRange))

\* The indices find_available_camera constructs a VideoCapture on.
FindProbes(devs) ==
    IF devs \cap FindRange = {} THEN Ascending(0, SetMax(FindRange))
    ELSE Ascending(0, SetMin(devs \cap FindRange))

\* Faulty variant: a value int() rejects falls back to index 0.
ResolveCameraIndexFallback(raw_index, devs) ==
    IF raw_index.kind = "auto" THEN FindAvailableCamera(devs)
    ELSE IF raw_index.kind = "int" THEN CameraId(raw_index.val)
    ELSE CameraId(0)

\* resolve_camera_index(cfg_value): the index to use, or None; int(cfg_value)
\* takes any integer, below zero as well.
ResolveCameraIndex(raw_index, devs) ==
    IF raw_index.kind = "auto" THEN FindAvailableCamera(devs)
    ELSE IF raw_index.kind = "int" THEN CameraId(raw_index.val)
    ELSE NoCamera

\* cfg.get("camera_index", "auto")
RawIndex(c) ==
    IF c.camera_index.kind = "missing" THEN AutoIndex ELSE c.camera_index

\* init_camera(cfg): whether a capture is returned, and the indices a
\* VideoCapture was constructed on along the way.
InitCamera(raw_index, devs) ==
    IF raw_index.kind = "auto" /\ ScanAvailableCameras(devs) = {}
    THEN [opened |-> FALSE, probes |-> Ascending(0, SetMax(ScanRange))]
    ELSE LET scan == IF raw_index.kind = "auto"
                     THEN Ascending(0, SetMax(ScanRange)) ELSE << >>
             find == IF raw_index.kind = "auto" THEN FindProbes(devs) ELSE << >>
             camera_id == ResolveCameraIndex(raw_index, devs)
         IN  IF camera_id = NoCamera
             THEN [opened |-> FALSE, probes |-> scan \o find]
             ELSE [opened |-> camera_id.index \in devs,
                   probes |-> scan \o find \o << camera_id.index >>]

\* ------------------------------------------------ camera_loop: the session
\* A printed line: what it says, and the values it carries (the definition
\* score, a text, a confidence).
Line(kind, def, text, conf) == [kind |-> kind, def |-> def, text |-> text, conf |-> conf]
Notice(kind) == Line(kind, 0, << >>, [sum |-> 0, n |-> 1])

\* The directories lines 152-157 create.
OutputDirs(c) ==
    IF c.enable_save_output
    THEN {"output_dir_images", "output_dir_images_origin", "output_dir_json"}
            \cup (IF c.debug_image_enabled THEN {"debug_image_dir"} ELSE {})
    ELSE {}

\* sum(confs) / len(confs) over the records' avg_conf, as one exact fraction:
\* with D the product of the lines' member counts, sum_k (sum_k * D / n_k)
\* over D * len(confs).
RECURSIVE ProdN(_)
ProdN(res) == IF res = << >> THEN 1 ELSE res[1].avg_conf.n * ProdN(Tail(res))

OverallConf(res) ==
    LET D == ProdN(res)
    IN  [ sum |-> SumSeq([k \in 1..Len(res) |->
                             res[k].avg_conf.sum * (D \div res[k].avg_conf.n)]),
          n   |-> D * Len(res) ]

\* fraction < threshold
FracLess(f, threshold) == f.sum < threshold * f.n

\* Faulty variant: a definition score equal to the threshold counts as blurred.
VerdictBlurredAtThreshold(score, definition_threshold, overall_conf, threshold) ==
    IF score <= definition_threshold THEN "blurred"
    ELSE IF FracLess(overall_conf, threshold) THEN "low_confidence"
    ELSE "good"

\* The if / elif / else of lines 364-369.
Verdict(score, definition_threshold, overall_conf, threshold) ==
    IF score < definition_threshold THEN "blurred"
    ELSE IF FracLess(overall_conf, threshold) THEN "low_confidence"
    ELSE "good"

\* Lines 360-369 with console logging on: a line per record, the mean, the verdict.
ResultLines(res, score, c) ==
    [k \in 1..Len(res) |-> Line("result", 0, res[k].text, res[k].avg_conf)]
        \o << Line("mean_conf", 0, << >>, OverallConf(res)) >>
        \o << Notice(Verdict(score, c.definition_threshold,
                             OverallConf(res), c.conf_threshold)) >>

\* Lines 351-369: what the end of a capture prints.
LogLines(res, score, c) ==
    IF ~ c.enable_console_log THEN << >>
    ELSE IF res = << >>
         THEN << Line("no_result", score, << >>, [sum |-> 0, n |-> 1]) >>
         ELSE ResultLines(res, score, c)

\* An artifact on disk: its kind and the capture it belongs to.
Artifact(kind, n) == [kind |-> kind, capture |-> n]

\* What the live loop draws on display = frame.copy(): a text or a box.
DisplayOp(op, what, value, color, box) ==
    [op |-> op, what |-> what, value |-> value, color |-> color, box |-> box]

\* Line 200: the instruction text.
InstructionText == DisplayOp("putText", "instruction", << 0 >>, "white", << >>)

\* Lines 204-208: the definition score, green at or above the threshold.
DefinitionText(score, definition_threshold) ==
    DisplayOp("putText", "definition", << score >>,
              IF score >= definition_threshold THEN "green" ELSE "red", << >>)

\* item.get("box", None): the record's "box", when it has one.
RecordBox(item) == IF "box" \in DOMAIN item THEN item.box ELSE << >>

\* not (not box or len(box) < 4)
BoxUsable(box) == box # << >> /\ Len(box) >= 4

\* int(sum(p[0] for p in box) / len(box)), int(sum(p[1] ...) / len(box))
BoxCentre(box) ==
    << SumSeq([i \in 1..Len(box) |-> box[i].x]) \div Len(box),
       SumSeq([i \in 1..Len(box) |-> box[i].y]) \div Len(box) >>

\* Lines 216-239 for one item: nothing without a usable box; else the
\* polyline and, with coordinate labels on, the label "#idx (cx, cy)".
LiveBoxOps(item, idx, c) ==
    IF ~ BoxUsable(RecordBox(item)) THEN << >>
    ELSE << DisplayOp("polylines", "box", << idx >>, "green", RecordBox(item)) >>
            \o (IF c.show_bbox_coords_on_live
                THEN << DisplayOp("putText", "coords",
                                  << idx >> \o BoxCentre(RecordBox(item)),
                                  "green", << >>) >>
                ELSE << >>)

\* "for idx, item in enumerate(last_results)", from index k - 1 on.
RECURSIVE LiveBoxes(_, _, _)
LiveBoxes(items, k, c) ==
    IF k > Len(items) THEN << >>
    ELSE LiveBoxOps(items[k], k - 1, c) \o LiveBoxes(items, k + 1, c)

\* Lines 197-239: everything drawn on the display of one iteration.
LiveDisplay(score, items, c) ==
    << InstructionText >>
        \o (IF c.show_definition_on_live
            THEN << DefinitionText(score, c.definition_threshold) >> ELSE << >>)
        \o (IF c.draw_bbox_on_live /\ items # << >>
            THEN LiveBoxes(items, 1, c) ELSE << >>)

\* Lines 118-166 on a document of "configs": read the configuration, create
\* the output directories when saving is on, build the engines.
StartWith(configs) ==
    /\ spc = "start"
    /\ \E c \in configs, d \in DeviceSets :
          /\ cfg' = c
          /\ devices' = d
          /\ dirs' = dirs \cup OutputDirs(c)
          /\ console' = IF c.enable_save_output THEN console
                        ELSE Append(console, Notice("save_disabled"))
    /\ cfg_reads' = cfg_reads + 1
    /\ spc' = "init_camera"
    /\ UNCHANGED << probed, cap, reads, frame, live_def, def_score, engine_log,
                    results, vis_img, msg, last_results, written, captures,
                    releases, display, frame_drawn, last_def_score, images >>
    /\ UNCHANGED << ocrVars, expVars, fltVars >>

StartSession == StartWith(SessionConfigs)

StartLive == StartWith(LiveConfigs)

\* Lines 171-184: cap = init_camera(cfg); return when it is None; the
\* last-outcome slot starts empty.
InitCameraStep ==
    /\ spc = "init_camera"
    /\ LET r == InitCamera(RawIndex(cfg), devices)
       IN  /\ probed' = probed \o r.probes
           /\ IF r.opened
              THEN /\ cap' = "open"
                   /\ spc' = "read"
                   /\ console' = Append(console, Notice("camera_ready"))
              ELSE /\ cap' = "none"
                   /\ spc' = "aborted"
                   /\ console' = Append(console, Notice("camera_unavailable"))
    /\ last_results' = << >>
    /\ last_def_score' = 0
    /\ UNCHANGED << cfg, devices, reads, frame, live_def, def_score, engine_log,
                    results, vis_img, msg, dirs, written, captures, releases,
                    cfg_reads, display, frame_drawn, images >>
    /\ UNCHANGED << ocrVars, expVars, fltVars >>

\* Faulty variant: a failed read goes round the loop and reads again.
AfterFailedReadRetry == "read"

\* "if not ret: ... break" at lines 191-193.
AfterFailedRead == "release"

\* Lines 190-247: ret, frame = cap.read(); break when not ret; else the
\* definition score and the display.
ReadFrame ==
    /\ spc = "read"
    /\ reads < MaxReads
    /\ reads' = reads + 1
    /\ \E ret \in BOOLEAN :
          IF ret
          THEN /\ \E sharp \in DefScores :
                     /\ frame' = Frame(reads', sharp)
                     /\ live_def' = sharp
                     /\ display' = LiveDisplay(sharp, last_results, cfg)
               /\ frame_drawn' = << >>
               /\ spc' = "key"
               /\ console' = console
          ELSE /\ frame' = NoFrame
               /\ live_def' = live_def
               /\ display' = display
               /\ frame_drawn' = << >>
               /\ spc' = AfterFailedRead
               /\ console' = Append(console, Notice("read_failed"))
    /\ UNCHANGED << cfg, devices, probed, cap, def_score, engine_log, results,
                    vis_img, msg, last_results, dirs, written, captures,
                    releases, cfg_reads, last_def_score, images >>
    /\ UNCHANGED << ocrVars, expVars, fltVars >>

\* Lines 249-261: the key polled; q breaks, space starts a capture, anything
\* else goes round the loop.
PollKey ==
    /\ spc = "key"
    /\ \E key \in Keys :
          IF key = "q"
          THEN /\ spc' = "release"
               /\ UNCHANGED << def_score, engine_log, console, captures, images >>
          ELSE IF key = "space"
               THEN /\ spc' = "ocr"
                    /\ def_score' = live_def
                    /\ engine_log' = << >>
                    /\ console' = << Notice("capture_start") >>
                    /\ captures' = captures + 1
                    /\ images' = {}
               ELSE /\ spc' = "read"
                    /\ UNCHANGED << def_score, engine_log, console, captures,
                                    images >>
    /\ UNCHANGED << cfg, devices, probed, cap, reads, frame, live_def, results,
                    vis_img, msg, last_results, dirs, written, releases,
                    cfg_reads, display, frame_drawn, last_def_score >>
    /\ UNCHANGED << ocrVars, expVars, fltVars >>

\* Faulty variant: the retry does not look at the toggle.
RetryWantedAlways(message_, c) == message_ = "ERROR"

\* msg.startswith("ERROR") and enable_retry_on_error
RetryWanted(message_, c) == message_ = "ERROR" /\ c.enable_retry_on_error

\* The lines a call of run_ocr_on_image prints (line 92 of ocr_runner).
RunLines(out) ==
    IF out.message = "ERROR" THEN << Notice("engine_exception") >> ELSE << >>

\* Faulty variant: the frame itself is handed to run_ocr_on_image.
RunImageIsFrame == "frame"

\* The image handed to run_ocr_on_image at lines 265 and 272: frame.copy().
RunImage == "copy"

\* What is drawn on the frame object once run_ocr_on_image has drawn "drawn"
\* on the image it was handed.
FrameAfterRun(on_frame, drawn) ==
    IF RunImage = "frame" THEN on_frame \o drawn ELSE on_frame

\* Lines 264-269: the first run_ocr_on_image on frame.copy(), and the test
\* that decides on the retry.  The loop has no try of its own: an exception
\* that left run_ocr_on_image would leave start_camera_ocr.
RunOcr ==
    /\ spc = "ocr"
    /\ \E r \in SessionEngineOutcomes :
          LET out == RunOcrOnImage(r, cfg.conf_threshold)
          IN  /\ engine_log' = Append(engine_log, r)
              /\ results' = out.results
              /\ vis_img' = out.image
              /\ frame_drawn' = FrameAfterRun(frame_drawn, out.image)
              /\ msg' = out.message
              /\ console' = console \o RunLines(out)
              /\ spc' = IF out.message = "UNCAUGHT" THEN "crashed"
                        ELSE IF RetryWanted(out.message, cfg)
                             THEN "retry" ELSE "store"
    /\ UNCHANGED << cfg, devices, probed, cap, reads, frame, live_def, def_score,
                    last_results, dirs, written, captures, releases, cfg_reads,
                    display, last_def_score, images >>
    /\ UNCHANGED << ocrVars, expVars, fltVars >>

\* Lines 270-273: the one retry, on a fresh frame.copy().
RetryOcr ==
    /\ spc = "retry"
    /\ \E r \in SessionEngineOutcomes :
          LET out == RunOcrOnImage(r, cfg.conf_threshold)
          IN  /\ engine_log' = Append(engine_log, r)
              /\ results' = out.results
              /\ vis_img' = out.image
              /\ frame_drawn' = FrameAfterRun(frame_drawn, out.image)
              /\ msg' = out.message
              /\ console' = console \o << Notice("retry") >> \o RunLines(out)
              /\ spc' = IF out.message = "UNCAUGHT" THEN "crashed" ELSE "store"
    /\ UNCHANGED << cfg, devices, probed, cap, reads, frame, live_def, def_score,
                    last_results, dirs, written, captures, releases, cfg_reads,
                    display, last_def_score, images >>
    /\ UNCHANGED << ocrVars, expVars, fltVars >>

\* Faulty variant: the slot keeps the first non-empty results it was given.
NextLastResultsKeepFirst(last, res) == IF last = << >> THEN res ELSE last

\* "last_results = results" at line 296.
NextLastResults(last, res) == res

\* Lines 277-302: the loop over results draws nothing (the merger's records
\* carry no "box"); last_results = results, last_def_score = def_score.
StoreLast ==
    /\ spc = "store"
    /\ last_results' = NextLastResults(last_results, results)
    /\ last_def_score' = def_score
    /\ spc' = "save"
    /\ UNCHANGED << cfg, devices, probed, cap, reads, frame, live_def, def_score,
                    engine_log, results, vis_img, msg, console, dirs, written,
                    captures, releases, cfg_reads, display, frame_drawn, images >>
    /\ UNCHANGED << ocrVars, expVars, fltVars >>

\* What the save step's writes leave on disk under a fault: cv2.imwrite
\* that raises does so at the first write; export_to_json that raises does
\* so after both images are written and before the debug image.
SavedKinds(c, fault) ==
    IF fault = "imwrite_raises" THEN {}
    ELSE (IF fault = "origin_unwritten" THEN {} ELSE {"origin"})
            \cup (IF fault = "annotated_unwritten" THEN {} ELSE {"annotated"})
            \cup (IF fault = "json_raises" THEN {} ELSE {"json"})
            \cup (IF c.debug_image_enabled
                     /\ fault \notin {"json_raises", "debug_unwritten"}
                  THEN {"debug"} ELSE {})

\* Whether an exception leaves the save step: cv2.imwrite's False is not
\* looked at, an exception of cv2.imwrite or export_to_json is not caught.
SaveRaises(fault) == fault \in {"imwrite_raises", "json_raises"}

\* Faulty variant: the save step ignores the toggle.
SaveEnabledAlways(c) == TRUE

\* "if enable_save_output:" at line 305.
SaveEnabled(c) == c.enable_save_output

\* The lines the save step prints when no exception leaves it.
SaveLines(c) ==
    (IF c.debug_image_enabled THEN << Notice("debug_saved") >> ELSE << >>)
        \o << Notice("saved") >>

\* Whether the save step gets as far as export_to_json (line 311), which
\* calls load_ocr_config() again (json_exporter.py:200).
ExportCalled(fault) == fault # "imwrite_raises"

\* Lines 318-334: the labels drawn on debug_frame, one per record that has
\* a usable box.
RECURSIVE DebugLabels(_, _)
DebugLabels(res, k) ==
    IF k > Len(res) THEN << >>
    ELSE (IF BoxUsable(RecordBox(res[k]))
          THEN << DisplayOp("putText", "coords",
                            << k - 1 >> \o BoxCentre(RecordBox(res[k])),
                            "green", << >>) >>
          ELSE << >>) \o DebugLabels(res, k + 1)

\* An image file's content: the frame it shows and what is drawn over it.
ImageContent(kind, id, drawn) == [kind |-> kind, frame |-> id, drawn |-> drawn]

\* Lines 307, 309 and 317-338: cv2.imwrite of frame, of vis_img and of
\* debug_frame = vis_img.copy() with the labels.
SavedImages(kinds, fr, on_frame, annotated, res) ==
    { ImageContent("origin", fr.id, on_frame) : k \in kinds \cap {"origin"} }
        \cup { ImageContent("annotated", fr.id, annotated) :
                  k \in kinds \cap {"annotated"} }
        \cup { ImageContent("debug", fr.id, annotated \o DebugLabels(res, 1)) :
                  k \in kinds \cap {"debug"} }

\* Lines 305-348: with saving on, the original image, the annotated image,
\* the JSON export and the optional debug image, then "saved"; with saving
\* off, a notice.
SaveStep ==
    /\ spc = "save"
    /\ IF SaveEnabled(cfg)
       THEN \E fault \in IoFaults :
               /\ fault = "debug_unwritten" => cfg.debug_image_enabled
               /\ written' = written \cup
                     { Artifact(kind, captures) : kind \in SavedKinds(cfg, fault) }
               /\ images' = SavedImages(SavedKinds(cfg, fault), frame,
                                        frame_drawn, vis_img, results)
               /\ cfg_reads' = IF ExportCalled(fault) THEN cfg_reads + 1
                               ELSE cfg_reads
               /\ IF SaveRaises(fault)
                  THEN spc' = "crashed" /\ console' = console
                  ELSE spc' = "log" /\ console' = console \o SaveLines(cfg)
       ELSE /\ written' = written
            /\ images' = images
            /\ cfg_reads' = cfg_reads
            /\ spc' = "log"
            /\ console' = Append(console, Notice("save_disabled"))
    /\ UNCHANGED << cfg, devices, probed, cap, reads, frame, live_def, def_score,
                    engine_log, results, vis_img, msg, last_results, dirs,
                    captures, releases, display, frame_drawn, last_def_score >>
    /\ UNCHANGED << ocrVars, expVars, fltVars >>

\* Lines 351-369: with no result one line (when console logging is on) and
\* "continue"; otherwise the records, their mean and the verdict (when
\* console logging is on).
LogStep ==
    /\ spc = "log"
    /\ console' = console \o LogLines(results, def_score, cfg)
    /\ spc' = "read"
    /\ UNCHANGED << cfg, devices, probed, cap, reads, frame, live_def, def_score,
                    engine_log, results, vis_img, msg, last_results, dirs,
                    written, captures, releases, cfg_reads, display,
                    frame_drawn, last_def_score, images >>
    /\ UNCHANGED << ocrVars, expVars, fltVars >>

\* Lines 374-376, reached by break: cap.release().
Release ==
    /\ spc = "release"
    /\ cap' = "released"
    /\ releases' = releases + 1
    /\ console' = Append(console, Notice("session_closed"))
    /\ spc' = "stopped"
    /\ UNCHANGED << cfg, devices, probed, reads, frame, live_def, def_score,
                    engine_log, results, vis_img, msg, last_results, dirs,
                    written, captures, cfg_reads, display, frame_drawn,
                    last_def_score, images >>
    /\ UNCHANGED << ocrVars, expVars, fltVars >>

SessionNext ==
    \/ StartSession
    \/ InitCameraStep
    \/ ReadFrame
    \/ PollKey
    \/ RunOcr
    \/ RetryOcr
    \/ StoreLast
    \/ SaveStep
    \/ LogStep
    \/ Release

\* One session of start_camera_ocr().
SessionSpec == Init /\ [][SessionNext]_vars

\* The same session on the documents of LiveConfigs.
LiveNext ==
    \/ StartLive
    \/ InitCameraStep
    \/ ReadFrame
    \/ PollKey
    \/ RunOcr
    \/ RetryOcr
    \/ StoreLast
    \/ SaveStep
    \/ LogStep
    \/ Release

LiveSpec == Init /\ [][LiveNext]_vars

\* ------------------------------------------ json_exporter: the export
\* What a file holds: the capture that wrote it, and an image, a JSON array
\* or a JSON object with the members "results" and "bbox".
ImageFile(n) == [capture |-> n, form |-> "image", items |-> << >>, bbox |-> << >>]
JsonArray(n, items) == [capture |-> n, form |-> "array", items |-> items, bbox |-> << >>]
JsonObject(n, items, bbox) == [capture |-> n, form |-> "object", items |-> items, bbox |-> bbox]

\* open(path, "w") and a dump: the file is created or replaced.
WriteFile(fs, path, content) ==
    [p \in DOMAIN fs \cup {path} |-> IF p = path THEN content ELSE fs[p]]

\* json.dump(results, ...): a JSON object per record, its members those of
\* the record.
DumpResults(res) ==
    [k \in 1..Len(res) |->
        [ line_index |-> res[k].line_index,
          text       |-> res[k].text,
          avg_conf   |-> res[k].avg_conf ]]

\* bbox_only: {"id": idx, "text": ..., "confidence": avg_conf, "bbox": box}
\* for idx, item in enumerate(results).
BboxOnly(res) ==
    [k \in 1..Len(res) |->
        [ id |-> k - 1, text |-> res[k].text, confidence |-> res[k].avg_conf,
          bbox |-> RecordBox(res[k]) ]]

\* Lines 245-254: the text JSON as loaded, wrapped as {"results": data} when
\* it is a list, with data["bbox"] = bbox_only.
MergedJson(n, data, bbox_only) ==
    IF data.form = "array" THEN JsonObject(n, data.items, bbox_only)
    ELSE [data EXCEPT !.capture = n, !.bbox = bbox_only]

\* Faulty variant: the merge flag is not looked at, the bbox entries always
\* go to a file of their own.
MergeIntoTextNever(doc, path) == FALSE

\* "if merge and txt_json_path:" at line 227.
MergeIntoText(doc, path) == doc.merge_with_text_json /\ path # NoPath

\* camera_loop.py 258-309 as the exporter's caller: ts is taken, the runs
\* give the results, the two images are written under names built from ts.
Capture ==
    /\ xpc = "idle"
    /\ triggers < MaxTriggers
    /\ triggers' = triggers + 1
    /\ ts' = now
    /\ \E r \in SessionEngineOutcomes :
          xresults' = RunOcrOnImage(r, DefaultConfThreshold).results
    /\ files' = WriteFile(WriteFile(files, OriginPath(now), ImageFile(triggers')),
                          AnnotatedPath(now), ImageFile(triggers'))
    /\ xpc' = "export"
    /\ UNCHANGED << now, xcfg, txt_json_path, bbox_json_path >>
    /\ UNCHANGED << ocrVars, sessVars, fltVars >>

\* A second passes.
Tick ==
    /\ now < MaxClock
    /\ now' = now + 1
    /\ UNCHANGED << xpc, ts, xresults, xcfg, files, txt_json_path,
                    bbox_json_path, triggers >>
    /\ UNCHANGED << ocrVars, sessVars, fltVars >>

\* export_to_json -> export_all_json, lines 200-211: the document is read;
\* with enable_save_output false nothing is written; a document without the
\* export_options sections raises KeyError.
ExportRead ==
    /\ xpc = "export"
    /\ \E doc \in ExportDocs :
          /\ xcfg' = doc
          /\ xpc' = IF ~ doc.enable_save_output THEN "returned"
                    ELSE IF ~ doc.sections THEN "raised"
                    ELSE "text"
    /\ txt_json_path' = NoPath
    /\ bbox_json_path' = NoPath
    /\ UNCHANGED << now, ts, xresults, files, triggers >>
    /\ UNCHANGED << ocrVars, sessVars, fltVars >>

\* Lines 216-218 and _save_text_json: with text_json enabled the results
\* are dumped under a name built from _timestamp().
SaveTextJson ==
    /\ xpc = "text"
    /\ IF xcfg.text_enabled
       THEN /\ files' = WriteFile(files, TextJsonPath(now),
                                  JsonArray(triggers, DumpResults(xresults)))
            /\ txt_json_path' = TextJsonPath(now)
       ELSE /\ files' = files
            /\ txt_json_path' = NoPath
    /\ xpc' = "bbox"
    /\ UNCHANGED << now, ts, xresults, xcfg, bbox_json_path, triggers >>
    /\ UNCHANGED << ocrVars, sessVars, fltVars >>

\* Lines 223-266: with bbox_json enabled, the bbox entries are merged into
\* the text JSON (merge on and a text JSON written) or dumped by
\* _save_bbox_json under a name built from its own _timestamp().
SaveBboxJson ==
    /\ xpc = "bbox"
    /\ IF ~ xcfg.bbox_enabled
       THEN /\ files' = files
            /\ bbox_json_path' = NoPath
       ELSE IF MergeIntoText(xcfg, txt_json_path)
            THEN /\ files' = WriteFile(files, txt_json_path,
                                       MergedJson(triggers, files[txt_json_path],
                                                  BboxOnly(xresults)))
                 /\ bbox_json_path' = txt_json_path
            ELSE /\ files' = WriteFile(files, BboxJsonPath(now),
                                       JsonArray(triggers, BboxOnly(xresults)))
                 /\ bbox_json_path' = BboxJsonPath(now)
    /\ xpc' = "returned"
    /\ UNCHANGED << now, ts, xresults, xcfg, txt_json_path, triggers >>
    /\ UNCHANGED << ocrVars, sessVars, fltVars >>

\* Lines 268-271 and the return to the save step: the paths returned are
\* dropped by export_to_json.
ExportReturn ==
    /\ xpc = "returned"
    /\ xpc' = "idle"
    /\ xresults' = << >>
    /\ xcfg' = NoDoc
    /\ txt_json_path' = NoPath
    /\ bbox_json_path' = NoPath
    /\ UNCHANGED << now, ts, files, triggers >>
    /\ UNCHANGED << ocrVars, sessVars, fltVars >>

ExportNext ==
    \/ Capture
    \/ Tick
    \/ ExportRead
    \/ SaveTextJson
    \/ SaveBboxJson
    \/ ExportReturn

\* Captures of one session and their exports, with the clock running.
ExportSpec == Init /\ [][ExportNext]_vars

\* -------------------------------------- the confidences in binary64
\* [hi, lo] with the carry of lo taken into hi.
Carry(hi, lo) == [hi |-> hi + (lo \div Limb), lo |-> lo % Limb]

\* a < b
Less64(a, b) == a.hi < b.hi \/ (a.hi = b.hi /\ a.lo < b.lo)

\* The distance between neighbouring binary64 numbers at x, in units of
\* 2^-53: 1 below 1.0, 2 below 2.0, 4 below 4.0, 8 below 8.0.
Spacing(x) ==
    IF x.hi < 33554432 THEN 1
    ELSE IF x.hi < 67108864 THEN 2
    ELSE IF x.hi < 134217728 THEN 4
    ELSE 8

\* The binary64 number nearest to x, the even one of two equally near.
Round64(x) ==
    LET u == Spacing(x)
        r == x.lo % u
        down == x.lo - r
        odd == (x.lo \div u) % 2 = 1
        up == 2 * r > u \/ (2 * r = u /\ odd)
    IN  Carry(x.hi, IF up THEN down + u ELSE down)

\* a + b without rounding.
Plus(a, b) == Carry(a.hi + b.hi, a.lo + b.lo)

\* a + b in binary64.
Add64(a, b) == Round64(Plus(a, b))

\* x / n in binary64 for a whole n and a quotient in [0.5, 1], where the
\* neighbouring numbers are one unit apart.
Div64(x, n) ==
    LET t == (x.hi % n) * Limb + x.lo
        q == Dbl(x.hi \div n, t \div n)
        r == t % n
        odd == q.lo % 2 = 1
        up == 2 * r > n \/ (2 * r = n /\ odd)
    IN  IF up THEN Carry(q.hi, q.lo + 1) ELSE q

\* res += a[i] from left to right.
RECURSIVE SumFrom(_, _)
SumFrom(res, a) ==
    IF a = << >> THEN res ELSE SumFrom(Add64(res, a[1]), Tail(a))

\* The sum of a without rounding.
RECURSIVE ExactSum(_)
ExactSum(a) == IF a = << >> THEN Zero64 ELSE Plus(a[1], ExactSum(Tail(a)))

\* float(np.mean(confs)): the sum from left to right, divided by the count.
NpMean(confs) == Div64(SumFrom(Zero64, confs), Len(confs))

\* sum(confs): from left to right, or with the rounding errors carried
\* along and added at the end, which for these few numbers of one
\* magnitude is the exact sum rounded once.
PySum(kind, confs) ==
    IF kind = "naive" THEN SumFrom(Zero64, confs) ELSE Round64(ExactSum(confs))

\* Faulty variant: every detection is kept.
Keeps64All(conf, threshold) == TRUE

\* float(conf) >= conf_threshold
Keeps64(conf, threshold) == ~Less64(conf, threshold)

\* The detections of one line, in list order.
RowMembers(dets, row) == SelectSeq(dets, LAMBDA d : d.row = row)

\* The merger's records: one per line that has a member, top to bottom,
\* with the members' confidences and their mean.
RECURSIVE Records64(_, _)
Records64(dets, row) ==
    IF row > MaxDets THEN << >>
    ELSE LET members == RowMembers(dets, row)
             confs == [i \in 1..Len(members) |-> members[i].conf]
         IN  (IF members = << >> THEN << >>
              ELSE << [confs |-> confs, avg_conf |-> NpMean(confs)] >>)
             \o Records64(dets, row + 1)

\* overall_conf = sum(confs) / len(confs)
OverallConf64(kind, recs) ==
    Div64(PySum(kind, [i \in 1..Len(recs) |-> recs[i].avg_conf]), Len(recs))

\* Lines 364-369 on binary64 numbers.
Verdict64(score, definition_threshold, overall_conf, threshold) ==
    IF score < definition_threshold THEN "blurred"
    ELSE IF Less64(overall_conf, threshold) THEN "low_confidence"
    ELSE "good"

\* A capture: the configuration in force, the frame's definition score and
\* what the engine lists.
Recognize ==
    /\ fpc = "idle"
    /\ \E c \in FloatConfigs : fcfg' = c
    /\ \E k \in SumKinds : py_sum' = k
    /\ \E s \in FloatDefScores : fdef_score' = s
    /\ \E dets \in SeqsUpTo(FloatDetections, MaxDets) : fdets' = dets
    /\ fpc' = "filter"
    /\ UNCHANGED << ffiltered, fresults, foverall_conf, fverdict >>
    /\ UNCHANGED << ocrVars, sessVars, expVars >>

\* run_ocr_on_image's filter.
FilterConfs ==
    /\ fpc = "filter"
    /\ ffiltered' = SelectSeq(fdets, LAMBDA d : Keeps64(d.conf, fcfg.conf_threshold))
    /\ fpc' = "merge"
    /\ UNCHANGED << py_sum, fcfg, fdef_score, fdets, fresults, foverall_conf,
                    fverdict >>
    /\ UNCHANGED << ocrVars, sessVars, expVars >>

\* merge_words_with_boxes: the records and their avg_conf.
MergeConfs ==
    /\ fpc = "merge"
    /\ fresults' = Records64(ffiltered, 1)
    /\ fpc' = "log"
    /\ UNCHANGED << py_sum, fcfg, fdef_score, fdets, ffiltered, foverall_conf,
                    fverdict >>
    /\ UNCHANGED << ocrVars, sessVars, expVars >>

\* Lines 351-369: nothing further without a record; else overall_conf, and
\* with console logging on the verdict.
LogVerdict ==
    /\ fpc = "log"
    /\ IF fresults = << >>
       THEN UNCHANGED << foverall_conf, fverdict >>
       ELSE /\ foverall_conf' = OverallConf64(py_sum, fresults)
            /\ fverdict' =
                  IF fcfg.enable_console_log
                  THEN Verdict64(fdef_score, fcfg.definition_threshold,
                                 foverall_conf', fcfg.conf_threshold)
                  ELSE "none"
    /\ fpc' = "done"
    /\ UNCHANGED << py_sum, fcfg, fdef_score, fdets, ffiltered, fresults >>
    /\ UNCHANGED << ocrVars, sessVars, expVars >>

FloatNext ==
    \/ Recognize
    \/ FilterConfs
    \/ MergeConfs
    \/ LogVerdict

\* One capture with its confidences in binary64.
FloatSpec == Init /\ [][FloatNext]_vars


\* ===================================================================
\* Properties
\* ===================================================================
Range(s) == { s[i] : i \in 1..Len(s) }
Count(s, r) == Cardinality({ i \in 1..Len(s) : s[i] = r })

\* The merger has grouped a non-empty detection list (it stands between
\* line 54 and its return, or has returned).
Grouped == pc \in {"render", "returned"} /\ filtered # << >>
\* The merger has returned the records of a non-empty detection list.
Merged == pc = "returned" /\ filtered # << >>

\* C1: every detection of a non-empty list handed to merge_words_with_boxes
\* is a member of exactly one output line: the lines' member counts add up
\* to the number of detections, each detection's word record occurs among
\* the members as often as it occurs in the input, and there is one output
\* record per line.
C1_EveryDetectionInOneLine ==
    /\ Grouped =>
          /\ SumSeq([k \in 1..Len(grouped_lines) |-> Len(grouped_lines[k])])
                = Len(filtered)
          /\ \A k \in 1..Len(grouped_lines) : grouped_lines[k] # << >>
          /\ \A i \in 1..Len(filtered) :
                Count(Flatten(grouped_lines), WordRecord(filtered[i]))
                    = Count(BuildLines(filtered), WordRecord(filtered[i]))
    /\ Merged => Len(merged_results) = Len(grouped_lines)

C1_Witness ==
    /\ Merged
    /\ Len(filtered) = 3
    /\ Len(merged_results) = 2

\* Position in "lines" of the first member of group k.
GroupStart(k) ==
    1 + SumSeq([m \in 1..(k - 1) |-> Len(grouped_lines[m])])

\* C2: the words are walked in ascending (centroid_y, centroid_x) order, the
\* groups are the consecutive runs of that walk, and a word is in the same
\* group as the word before it exactly when their centroid_y differ by at
\* most y_thresh; otherwise it opens the next group.
C2_JoinsIffWithinYThreshOfLast ==
    pc = "render" =>
       /\ \A i \in 1..Len(lines), j \in 1..Len(lines) :
             i < j => \/ lines[i].cy < lines[j].cy
                      \/ lines[i].cy = lines[j].cy /\ lines[i].cx <= lines[j].cx
       /\ Flatten(grouped_lines) = lines
       /\ \A i \in 2..Len(lines) :
             (\E k \in 2..Len(grouped_lines) : GroupStart(k) = i)
                <=> ~ (Abs(lines[i].cy - lines[i - 1].cy) <= QuadPoints * y_thresh)

C2_Witness ==
    /\ pc = "render"
    /\ Len(lines) = 3
    /\ Len(grouped_lines) = 2
    /\ Len(grouped_lines[1]) = 2

\* C3 as claimed: in every group each member's centroid_y is within y_thresh
\* of the centroid_y of the group's anchor, its first member assigned.
C3_WithinYThreshOfAnchor ==
    pc = "render" =>
       \A k \in 1..Len(grouped_lines) : \A m \in 1..Len(grouped_lines[k]) :
          Abs(grouped_lines[k][m].cy - grouped_lines[k][1].cy)
             <= QuadPoints * y_thresh

\* C3 as amended: in every group each member's centroid_y is within y_thresh
\* of the centroid_y of the member assigned just before it, so the m-th
\* member assigned lies within (m - 1) * y_thresh of the anchor.
C3_WithinYThreshOfPrevious ==
    pc = "render" =>
       \A k \in 1..Len(grouped_lines) : \A m \in 2..Len(grouped_lines[k]) :
          /\ Abs(grouped_lines[k][m].cy - grouped_lines[k][m - 1].cy)
                <= QuadPoints * y_thresh
          /\ Abs(grouped_lines[k][m].cy - grouped_lines[k][1].cy)
                <= (m - 1) * QuadPoints * y_thresh

\* A group whose last member is farther than y_thresh from the anchor.
C3_Witness ==
    /\ pc = "render"
    /\ \E k \in 1..Len(grouped_lines) :
          /\ Len(grouped_lines[k]) = 3
          /\ Abs(grouped_lines[k][3].cy - grouped_lines[k][1].cy)
                > QuadPoints * y_thresh

\* Positions in a line (sorted by x_min) where a word-group starts: the first
\* word, and every word whose gap to the word before is x_gap_thresh or more.
GroupHeads(line) ==
    {1} \cup { j \in 2..Len(line) :
                  line[j].x_min - line[j - 1].x_max >= x_gap_thresh }

\* The g-th smallest element of a set of positions.
NthOf(S, g) == CHOOSE j \in S : Cardinality({ m \in S : m <= j }) = g

\* Last position of the word-group that starts at position j of the line.
GroupEnd(line, j) ==
    IF \E h \in GroupHeads(line) : h > j
    THEN SetMin({ h \in GroupHeads(line) : h > j }) - 1
    ELSE Len(line)

\* C4: every line's members stand in ascending x_min order; consecutive
\* members with a gap below x_gap_thresh are in one word-group, joined by a
\* single space, a gap of x_gap_thresh or more starts a new word-group; the
\* line's text is its word-groups joined by single spaces.
C4_TextFromWordGroupsInXOrder ==
    Merged =>
       \A k \in 1..Len(merged_results) :
          LET line == grouped_lines[k]
              heads == GroupHeads(line)
          IN  /\ \A j \in 2..Len(line) : line[j - 1].x_min <= line[j].x_min
              /\ Len(line_words[k]) = Cardinality(heads)
              /\ \A g \in 1..Cardinality(heads) :
                    LET first == NthOf(heads, g)
                    IN  line_words[k][g] =
                           JoinSpace([j \in 1..(GroupEnd(line, first) - first + 1)
                                         |-> line[first + j - 1].text])
              /\ merged_results[k].text = JoinSpace(line_words[k])

\* A line of three words in two word-groups, whose x order is not its
\* (centroid_y, centroid_x) order.
C4_Witness ==
    /\ Merged
    /\ \E k \in 1..Len(merged_results) :
          /\ Len(grouped_lines[k]) = 3
          /\ Len(line_words[k]) = 2
          /\ Len(line_words[k][1]) = 3
          /\ grouped_lines[k][2].cy > grouped_lines[k][3].cy

\* C5: the records carry line_index 1, 2, ..., n in list order, and the
\* order is top to bottom: no member of line k has a centroid_y greater
\* than that of a member of line k + 1.
C5_LineIndexTopToBottom ==
    Merged =>
       /\ \A k \in 1..Len(merged_results) : merged_results[k].line_index = k
       /\ \A k \in 1..(Len(grouped_lines) - 1) :
             \A a \in 1..Len(grouped_lines[k]) :
                \A b \in 1..Len(grouped_lines[k + 1]) :
                   grouped_lines[k][a].cy <= grouped_lines[k + 1][b].cy

\* Three lines, from detections that did not arrive top to bottom.
C5_Witness ==
    /\ Merged
    /\ Len(merged_results) = 3
    /\ filtered[1].box = BoxC
    /\ filtered[3].box = BoxB

\* C6: every record's avg_conf is the sum of its line's member confidences
\* divided by the member count; a single-member line has its member's
\* confidence.
C6_AvgConfIsMeanOfMembers ==
    Merged =>
       \A k \in 1..Len(merged_results) :
          /\ merged_results[k].avg_conf.n = Len(grouped_lines[k])
          /\ merged_results[k].avg_conf.sum =
                SumSeq([j \in 1..Len(grouped_lines[k]) |-> grouped_lines[k][j].conf])
          /\ Len(grouped_lines[k]) = 1 =>
                /\ merged_results[k].avg_conf.n = 1
                /\ merged_results[k].avg_conf.sum = grouped_lines[k][1].conf

\* A two-member line of unequal confidences beside a single-member line of
\* yet another mean.
C6_Witness ==
    /\ Merged
    /\ Len(merged_results) = 2
    /\ Len(grouped_lines[1]) = 2
    /\ grouped_lines[1][1].conf # grouped_lines[1][2].conf
    /\ merged_results[1].avg_conf = [sum |-> 140, n |-> 2]
    /\ merged_results[2].avg_conf = [sum |-> 90, n |-> 1]

\* The orders in which the engine can list n detections.
Orders(n) == { f \in [1..n -> 1..n] : \A i, j \in 1..n : i # j => f[i] # f[j] }
Reordered(dets, f) == [i \in 1..Len(dets) |-> dets[f[i]]]

\* C7 as claimed: whatever order the engine lists the same detections in, the
\* merger yields the same sequence of lines, with the same line_index and
\* the same text per line.
C7_SameLinesAndTextInAnyOrder ==
    Merged =>
       \A f \in Orders(Len(filtered)) :
          LET other == MergeWordsWithBoxes(Reordered(filtered, f),
                                           y_thresh, x_gap_thresh)
          IN  /\ Len(other) = Len(merged_results)
              /\ \A k \in 1..Len(other) :
                    /\ other[k].line_index = merged_results[k].line_index
                    /\ other[k].text = merged_results[k].text

\* No two members of the line with different texts share centroid and x_min.
NoTextTie(line) ==
    \A i, j \in 1..Len(line) :
       (line[i].cy = line[j].cy /\ line[i].cx = line[j].cx
           /\ line[i].x_min = line[j].x_min) => line[i].text = line[j].text

\* C7 as amended: whatever order the engine lists the same detections in,
\* the merger yields the same sequence of lines with the same line_index and
\* the same members per line, and the same text for every line in which no
\* two detections with different texts share centroid and x_min.
C7_SameLinesInAnyOrder ==
    Merged =>
       \A f \in Orders(Len(filtered)) :
          LET dets == Reordered(filtered, f)
              other == MergeWordsWithBoxes(dets, y_thresh, x_gap_thresh)
              members == MergedLines(dets, y_thresh)
          IN  /\ Len(other) = Len(merged_results)
              /\ \A k \in 1..Len(other) :
                    /\ other[k].line_index = merged_results[k].line_index
                    /\ Len(members[k]) = Len(grouped_lines[k])
                    /\ \A r \in Range(members[k]) :
                          Count(members[k], r) = Count(grouped_lines[k], r)
                    /\ NoTextTie(grouped_lines[k]) =>
                          other[k].text = merged_results[k].text

\* Two lines from three detections listed bottom-up, none of them tying.
C7_Witness ==
    /\ Merged
    /\ Len(filtered) = 3
    /\ Len(merged_results) = 2
    /\ filtered[1].box = BoxC
    /\ filtered[2].box = BoxA
    /\ filtered[3].box = BoxA
    /\ filtered[2].text = filtered[3].text
    /\ \A k \in 1..Len(grouped_lines) : NoTextTie(grouped_lines[k])

\* run_ocr_on_image has returned.
RunOcrReturned == pc = "returned" /\ caller = "run_ocr"

\* The engine returned a non-empty list of detections for the frame.
EngineListed ==
    /\ ocr_result.status = "list"
    /\ ocr_result.frames # << >>
    /\ ocr_result.frames[1] # << >>

\* The detection's confidence is a number not below the threshold.
Survives(det, threshold) == det.conf.kind = "float" /\ ~ (det.conf.val < threshold)

\* C8: for an empty detection list the merger returns no line and draws
\* nothing on the image; run_ocr_on_image returns no line and an image with
\* nothing drawn on it when the engine returns nothing or no detection
\* survives the confidence filter.
C8_EmptyInputLeavesImageUntouched ==
    /\ (pc = "returned" /\ caller = "merge" /\ filtered = << >>) =>
          merged_results = << >> /\ image = << >>
    /\ (RunOcrReturned /\ ocr_result.status # "raised"
           /\ (EngineListed =>
                  \A i \in 1..Len(ocr_result.frames[1]) :
                     ~ Survives(ocr_result.frames[1][i], conf_threshold))) =>
          merged_results = << >> /\ image = << >>

\* run_ocr_on_image returns after the engine listed three detections of
\* which none survives the filter.
C8_Witness ==
    /\ RunOcrReturned
    /\ EngineListed
    /\ Len(ocr_result.frames[1]) = 3
    /\ message = "EMPTY_BELOW_CONF"
    /\ merged_results = << >>
    /\ image = << >>

\* Positions of the engine's detections that survive the threshold.
Survivors(dets, threshold) ==
    { i \in 1..Len(dets) : Survives(dets[i], threshold) }

\* The filter has run on the engine's list.
Filtered ==
    caller = "run_ocr" /\ pc \in {"group", "render", "returned"} /\ EngineListed

\* C9: the detections handed to the merger are exactly the engine's
\* detections whose confidence is a number not below conf_threshold, in the
\* order the engine listed them; the merger builds its words from these and
\* no others.
C9_OnlySurvivorsReachMerger ==
    /\ Filtered =>
          LET dets == ocr_result.frames[1]
              keep == Survivors(dets, conf_threshold)
          IN  /\ Len(filtered) = Cardinality(keep)
              /\ \A g \in 1..Len(filtered) : filtered[g] = dets[NthOf(keep, g)]
    /\ (Filtered /\ pc \in {"render", "returned"}) =>
          /\ Len(lines) = Len(filtered)
          /\ \A i \in 1..Len(filtered) :
                Count(lines, WordRecord(filtered[i]))
                   = Count(BuildLines(filtered), WordRecord(filtered[i]))

\* Three detections listed, the first below the threshold, one with a
\* confidence that is no number, one that survives and is merged.
C9_Witness ==
    /\ Filtered
    /\ pc = "returned"
    /\ conf_threshold = 90
    /\ Len(ocr_result.frames[1]) = 3
    /\ ocr_result.frames[1][1].conf = NumConf(50)
    /\ ocr_result.frames[1][2].conf = NoneConf
    /\ Len(filtered) = 1
    /\ Len(merged_results) = 1

\* Thresholds at which the filter is compared with the run's own.
ProbeThresholds == {0, 50, 51, 90, 91}

\* Every detection occurs in the list a at most as often as in the list b.
Within(a, b) == \A i \in 1..Len(a) : Count(a, a[i]) <= Count(b, a[i])

\* C10: for any thresholds t1 <= t2 the detections that survive at t2 are
\* among those that survive at t1, so raising the threshold never increases
\* the number of survivors.  At the run's own conf_threshold the survivors
\* are what the run did keep.
C10_FilterMonotonic ==
    Filtered =>
       LET kept == [t \in ProbeThresholds |->
                       IF t = conf_threshold THEN filtered
                       ELSE ConfFilter(ocr_result.frames[1], t)]
       IN  \A t1 \in ProbeThresholds, t2 \in ProbeThresholds :
              t1 <= t2 =>
                 /\ Within(kept[t2], kept[t1])
                 /\ Len(kept[t2]) <= Len(kept[t1])

\* A run at threshold 90 that kept one of three detections, of which a
\* threshold of 50 keeps all.
C10_Witness ==
    /\ Filtered
    /\ pc = "returned"
    /\ conf_threshold = 90
    /\ Len(filtered) = 1
    /\ Len(ConfFilter(ocr_result.frames[1], 50)) = 3

\* -------------------------------------------------- the capture session
\* A capture cycle is in progress (the Processing state).
InCycle == spc \in {"ocr", "retry", "store", "save", "log"}

\* The session is in the Live state.
Live == spc \in {"read", "key"}

\* The detect+filter runs of the current capture are over.
OcrDone == captures > 0 /\ spc \notin {"ocr", "retry"}

\* The last capture ran through its log step and nothing was printed since.
CycleLogged == captures > 0 /\ Live

\* The engine call of the n-th run of the capture raised, or listed what
\* cannot be unpacked.
RunFailed(n) == engine_log[n].status \in {"raised", "malformed"}

\* C11: in a capture cycle the engine is called once when the first run
\* does not report an error or retry-on-error is off, twice when the first
\* run reports an error and retry-on-error is on, and never a third time;
\* the results, image and message the runs hand to the rest of the cycle
\* are those of the last run, after a retry those of the retry.
C11_EngineCalledOnceOrTwice ==
    /\ Len(engine_log) <= 2
    /\ spc = "retry" =>
          Len(engine_log) = 1 /\ RunFailed(1) /\ cfg.enable_retry_on_error
    /\ OcrDone =>
          Len(engine_log) =
             IF RunFailed(1) /\ cfg.enable_retry_on_error THEN 2 ELSE 1
    /\ spc = "store" =>
          LET last == RunOcrOnImage(engine_log[Len(engine_log)],
                                    cfg.conf_threshold)
          IN  /\ results = last.results
              /\ msg = last.message
              /\ vis_img = last.image

\* Scenario E: the engine raises on the first call, retry-on-error is on,
\* the retry lists detections: two calls, and the outcome is the retry's.
C11_Witness ==
    /\ spc = "store"
    /\ cfg.enable_retry_on_error
    /\ Len(engine_log) = 2
    /\ engine_log[1] = EngineRaised
    /\ msg = "OK"
    /\ Len(results) = 2

\* C12: an engine call that raises (or lists what cannot be unpacked) does
\* not end the session: the run it happens in returns no line and the error
\* message and the cycle goes on to its retry or its store step with the
\* capture open, no detect+filter run ever ends the session, and a cycle
\* whose outcome is the error ends in Live, where the next frame is read.
C12_EngineFailureNeverEscapes ==
    /\ [](msg = "ERROR" => results = << >>)
    /\ [][ /\ spc \in {"ocr", "retry"} =>
                 /\ spc' \in {"retry", "store"}
                 /\ cap' = "open"
                 /\ RunFailed(Len(engine_log))' =>
                       results' = << >> /\ msg' = "ERROR"
           /\ (spc = "log" /\ msg = "ERROR") =>
                 spc' = "read" /\ cap' = "open" /\ last_results' = << >>
         ]_vars

\* After a capture in which the engine raised and no retry was made, the
\* next frame has been read.
C12_Witness ==
    /\ spc = "key"
    /\ captures = 1
    /\ reads = 2
    /\ engine_log = << EngineRaised >>
    /\ msg = "ERROR"
    /\ results = << >>

\* The verdict lines among the printed lines.
VerdictKinds == {"blurred", "low_confidence", "good"}
VerdictsPrinted ==
    SelectSeq(console, LAMBDA line : line.kind \in VerdictKinds)

\* The mean of the records' avg_conf is below the threshold:
\* sum_k (sum_k / n_k) < threshold * len, cleared of the denominators.
MeanBelow(res, threshold) ==
    SumSeq([k \in 1..Len(res) |->
               res[k].avg_conf.sum * (ProdN(res) \div res[k].avg_conf.n)])
        < threshold * Len(res) * ProdN(res)

\* C13: after a capture with at least one line and console logging on,
\* exactly one verdict is printed: "blurred" when the definition score is
\* below the definition threshold whatever the confidences, otherwise
\* "low-confidence" when the mean of the lines' avg_conf is below the
\* confidence threshold, otherwise "good"; under any verdict the lines are
\* the outcome: each is printed, they fill the last-outcome slot and the
\* run's message is "OK".
C13_VerdictSharpnessFirst ==
    (CycleLogged /\ results # << >> /\ cfg.enable_console_log) =>
       /\ VerdictsPrinted =
             << Notice(IF def_score < cfg.definition_threshold THEN "blurred"
                       ELSE IF MeanBelow(results, cfg.conf_threshold)
                            THEN "low_confidence"
                            ELSE "good") >>
       /\ msg = "OK"
       /\ last_results = results
       /\ \A k \in 1..Len(results) :
             \E i \in 1..Len(console) :
                /\ console[i].kind = "result"
                /\ console[i].text = results[k].text
                /\ console[i].conf = results[k].avg_conf

\* A blurred frame whose two lines have confidences 0.9 and 0.5 at a
\* threshold of 0.5: the lines are the outcome, the verdict is "blurred".
C13_Witness ==
    /\ CycleLogged
    /\ cfg.enable_console_log
    /\ def_score = 100
    /\ cfg.conf_threshold = 50
    /\ Len(results) = 2
    /\ VerdictsPrinted = << Notice("blurred") >>
    /\ last_results = results

\* The messages of a run that ends with no line and no error.
EmptyMessages == {"EMPTY_NO_TEXT", "EMPTY_BELOW_CONF"}

\* The cause of an empty outcome as the classification has it: the
\* sharpness first, then what the run found.
EmptyCause(message_, score, c) ==
    IF score < c.definition_threshold THEN "Blurred"
    ELSE IF message_ = "EMPTY_NO_TEXT" THEN "NoText"
    ELSE "BelowConfidence"

\* C14: a capture with zero lines (and console logging on) ends with a
\* printed report, and the report tells the cause: a capture of any other
\* frame and engine answer that is empty for another cause (Blurred before
\* NoText and BelowConfidence) would have printed a different report.
C14_EmptyCauseDistinct ==
    (CycleLogged /\ cfg.enable_console_log /\ msg \in EmptyMessages) =>
       /\ LogLines(results, def_score, cfg) # << >>
       /\ \A o \in SessionEngineOutcomes, score \in DefScores :
             LET alt == RunOcrOnImage(o, cfg.conf_threshold)
             IN  (/\ alt.message \in EmptyMessages
                  /\ EmptyCause(alt.message, score, cfg)
                        # EmptyCause(msg, def_score, cfg)) =>
                    LogLines(alt.results, score, cfg)
                       # LogLines(results, def_score, cfg)

\* The cause of a capture's outcome: the engine failure, the cause of an
\* empty result, or the quality verdict of the lines.
OutcomeCause(out, score, c) ==
    IF out.message = "ERROR" THEN "EngineError"
    ELSE IF out.results = << >> THEN EmptyCause(out.message, score, c)
    ELSE IF score < c.definition_threshold THEN "Blurred"
    ELSE IF MeanBelow(out.results, c.conf_threshold) THEN "LowConfidence"
    ELSE "Good"

\* The lines a capture prints about the outcome of its last run.
StatusLines(out, score, c) == RunLines(out) \o LogLines(out.results, score, c)

\* C15: every capture cycle prints a status line that identifies the cause
\* of its outcome: something is printed about the outcome, a capture with an
\* outcome of another cause would have printed something else, and a cycle
\* that ends in an engine failure prints the engine's error, which no cycle
\* with an empty result prints.
C15_StatusLineIdentifiesCause ==
    CycleLogged =>
       LET out == RunResult(results, vis_img, msg)
       IN  /\ StatusLines(out, def_score, cfg) # << >>
           /\ \A o \in SessionEngineOutcomes, score \in DefScores :
                 LET alt == RunOcrOnImage(o, cfg.conf_threshold)
                 IN  OutcomeCause(alt, score, cfg) # OutcomeCause(out, def_score, cfg)
                        => StatusLines(alt, score, cfg)
                              # StatusLines(out, def_score, cfg)
           /\ (msg = "ERROR") <=>
                 (Last(SelectSeq(console, LAMBDA line :
                          line.kind \in {"capture_start", "retry", "engine_exception"})).kind
                     = "engine_exception")

\* C16: in a session whose configuration has the save toggle off, nothing is
\* ever written (no original, annotated or debug image, no JSON) and no
\* output directory is created, whatever the debug-image toggle says; what
\* is written at all is written by a session whose save toggle is on.
C16_NothingSavedWhenSaveOff ==
    /\ (spc # "start" /\ ~ cfg.enable_save_output) =>
          written = {} /\ dirs = {}
    /\ (written # {} \/ dirs # {}) => cfg.enable_save_output

\* A session with saving off and the debug image on has completed a capture
\* with lines: nothing is on disk.
C16_Witness ==
    /\ CycleLogged
    /\ ~ cfg.enable_save_output
    /\ cfg.debug_image_enabled
    /\ results # << >>
    /\ written = {}
    /\ dirs = {}

\* The session has ended, by the quit key, a failed read or an exception
\* that left the loop body.
Ended == spc \in {"stopped", "crashed"}

\* C17: once the capture has been opened it is released exactly once on
\* every way the session ends: never twice, and once when the session has
\* ended by the quit key, by a failed read or by an exception that left the
\* loop body.
C17_ReleasedExactlyOnce ==
    /\ releases <= 1
    /\ Ended => (releases = 1 /\ cap = "released")

\* Position of a step within the capture cycle.
CycleRank(p) ==
    CASE p = "ocr" -> 1 [] p = "retry" -> 2 [] p = "store" -> 3
      [] p = "save" -> 4 [] p = "log" -> 5 [] OTHER -> 0

\* C18 as claimed: every step of a capture cycle leads further along the
\* cycle or back to Live, so that a cycle once started runs to its end and
\* Processing is never where a session ends; during the cycle no frame is
\* read and no capture begins.
C18_CycleAlwaysReturnsToLive ==
    [][ InCycle =>
           /\ reads' = reads /\ frame' = frame /\ captures' = captures
           /\ \/ InCycle' /\ CycleRank(spc') > CycleRank(spc)
              \/ spc' = "read"
      ]_vars

\* C18 as amended: the same, except that a write of the save step that
\* raises ends the session inside the cycle; every other state of a cycle
\* has a next step.
C18_CycleReturnsToLiveUnlessWriteRaises ==
    /\ [](InCycle => ENABLED SessionNext)
    /\ [][ InCycle =>
              /\ reads' = reads /\ frame' = frame /\ captures' = captures
              /\ \/ InCycle' /\ CycleRank(spc') > CycleRank(spc)
                 \/ spc' = "read"
                 \/ spc = "save" /\ cfg.enable_save_output /\ spc' = "crashed"
         ]_vars

\* A cycle with a retry and a save has run to its end on the first frame
\* and the session is back in Live, no further frame read.
C18_Witness ==
    /\ spc = "read"
    /\ captures = 1
    /\ reads = 1
    /\ Len(engine_log) = 2
    /\ cfg.enable_save_output
    /\ Artifact("json", 1) \in written

\* The artifacts a capture saves under the configuration.
ExpectedKinds(c) ==
    {"origin", "annotated", "json"}
        \cup (IF c.debug_image_enabled THEN {"debug"} ELSE {})

\* C19: a write of a capture artifact that fails is not masked: when the
\* session goes on after the save step of a capture (and reports it saved),
\* every artifact of that capture is on disk.
C19_WriteFailureNotMasked ==
    (cfg.enable_save_output /\ captures > 0 /\ (spc = "log" \/ Live)) =>
       /\ \A kind \in ExpectedKinds(cfg) : Artifact(kind, captures) \in written
       /\ \E i \in 1..Len(console) : console[i].kind = "saved"

\* C20: when no capture can be opened at session start the session aborts
\* before Live: no frame is read, no capture runs, and nothing has been
\* created on disk, neither an artifact nor an output directory.
C20_FailedStartLeavesNothing ==
    spc = "aborted" =>
       /\ cap = "none"
       /\ reads = 0 /\ frame = NoFrame
       /\ captures = 0
       /\ written = {}
       /\ dirs = {}

\* ------------------------------------------------- the camera set-up
\* init_camera has returned.
CameraDecided == spc \notin {"start", "init_camera"}

\* The session has started: the loop was entered.
SessionStarted == CameraDecided /\ spc # "aborted"

\* A camera_index that is missing, or that is neither "auto" nor an integer
\* of at least zero.
BadCameraIndex(i) ==
    i.kind \in {"missing", "invalid"} \/ (i.kind = "int" /\ i.val < 0)

\* C21 (as stated): a camera_index that is missing, or that is neither
\* "auto" nor a non-negative integer, resolves to "no device": no device is
\* probed or opened for it and the session does not start.
C21_BadIndexMeansNoDevice ==
    (CameraDecided /\ BadCameraIndex(cfg.camera_index)) =>
        /\ probed = << >>
        /\ cap = "none"
        /\ spc = "aborted"

\* C21 (amended): a camera_index that is present and that int() rejects
\* resolves to "no device": nothing is probed or opened and the session does
\* not start.  A missing camera_index is treated as "auto" (probing starts
\* at index 0 and the session starts when a device opens), and an integer,
\* below zero or not, is the one index a device is opened on.
C21_RejectedIndexMeansNoDevice ==
    CameraDecided =>
        /\ cfg.camera_index.kind = "invalid" =>
              /\ probed = << >>
              /\ cap = "none"
              /\ spc = "aborted"
              /\ reads = 0
        /\ cfg.camera_index.kind \in {"missing", "auto"} =>
              /\ probed # << >>
              /\ probed[1] = 0
              /\ SessionStarted <=> devices \cap ScanRange # {}
        /\ cfg.camera_index.kind = "int" =>
              /\ probed = << cfg.camera_index.val >>
              /\ SessionStarted <=> cfg.camera_index.val \in devices

\* A rejected camera_index on a machine that has a camera: nothing started.
C21_Witness ==
    /\ spc = "aborted"
    /\ cfg.camera_index.kind = "invalid"
    /\ devices # {}
    /\ probed = << >>

\* ------------------------------------------------ the configuration reads
\* C22: the configuration is read exactly once per session, before the loop
\* begins; no Live iteration and no capture cycle, its export step included,
\* reads it again.
C22_ConfigReadOnce == cfg_reads = (IF spc = "start" THEN 0 ELSE 1)

\* ---------------------------------------------------- the last-outcome slot
\* The capture in progress has not yet reached "last_results = results".
BeforeStore == spc \in {"ocr", "retry", "store"}

\* C23: the last-outcome slot is empty before the first trigger; once a
\* capture cycle has stored its outcome the slot holds exactly that cycle's
\* results (records, or none for an empty result or an engine error) and its
\* definition score; and no step but the cycle's store changes the slot, so
\* a Live iteration without a trigger leaves it as it was.
C23_LastOutcomeSingleSlot ==
    /\ [](/\ captures = 0 => last_results = << >>
          /\ (captures > 0 /\ ~ BeforeStore) =>
                (last_results = results /\ last_def_score = def_score))
    /\ [][(last_results' # last_results \/ last_def_score' # last_def_score)
             => (spc = "store" /\ last_results' = results)]_vars

\* A Live iteration after a capture that found text: the slot still holds it.
C23_Witness ==
    /\ spc = "key"
    /\ captures = 1
    /\ reads = 2
    /\ last_results # << >>
    /\ last_results = results

\* ------------------------------------------------------ the live overlay
\* The boxes and the coordinate labels drawn on the current display.
BoxesDrawn == SelectSeq(display, LAMBDA d : d.op = "polylines")
LabelsDrawn == SelectSeq(display, LAMBDA d : d.what = "coords")

\* C24: with live box drawing enabled and a last outcome of at least one
\* line, the overlay of every Live frame read afterwards draws a box for
\* each line of the last outcome, and its index/centroid label as well when
\* coordinate labels are enabled.
C24_LiveOverlayDrawsLastOutcome ==
    (spc = "key" /\ cfg.draw_bbox_on_live /\ last_results # << >>) =>
        /\ Len(BoxesDrawn) = Len(last_results)
        /\ cfg.show_bbox_coords_on_live => Len(LabelsDrawn) = Len(last_results)

\* ------------------------------------------------------- a failed read
\* The last cap.read() failed: no frame of a read is held.
ReadFailed == reads > 0 /\ frame = NoFrame

\* C26: a failed frame read moves the session from Live to Stopped with no
\* retry: from the first read that fails on, the session is on its way to
\* Stopped or there, no further frame is read, no key is polled and no
\* capture cycle is started.
C26_FailedReadStops ==
    /\ [](ReadFailed =>
             /\ spc \in {"release", "stopped"}
             /\ spc = "release" => ENABLED Release)
    /\ [][ReadFailed =>
             /\ ReadFailed'
             /\ reads' = reads
             /\ captures' = captures
             /\ spc' = "stopped"]_vars

\* A session stopped by a failed read that followed a capture.
C26_Witness ==
    /\ ReadFailed
    /\ spc = "stopped"
    /\ captures = 1
    /\ reads = 2
    /\ releases = 1

\* ------------------------------------------------- the captured frame
\* The save step of the current capture is over (or was left by an exception).
AfterSave == spc \in {"log", "crashed"}

ImagesOf(kind) == { i \in images : i.kind = kind }

\* C27: a capture cycle never draws on the frame it was triggered on: the
\* runs (the retry too) draw on a copy, so the original image written shows
\* the frame as read, the annotated image written shows the run's drawing,
\* and the save step, debug overlay included, changes neither the frame
\* nor the annotated image in memory.
C27_FrameNeverMutated ==
    /\ [](/\ frame_drawn = << >>
          /\ AfterSave =>
                /\ \A i \in ImagesOf("origin") :
                      i.frame = frame.id /\ i.drawn = << >>
                /\ \A i \in ImagesOf("annotated") :
                      i.frame = frame.id /\ i.drawn = vis_img)
    /\ [][spc = "save" =>
             /\ frame' = frame
             /\ frame_drawn' = frame_drawn
             /\ vis_img' = vis_img]_vars

\* A capture whose run drew on its copy, saved with the debug image.
C27_Witness ==
    /\ spc = "log"
    /\ vis_img # << >>
    /\ ImagesOf("origin") # {}
    /\ ImagesOf("annotated") # {}
    /\ ImagesOf("debug") # {}
    /\ Len(engine_log) = 2

\* ------------------------------------------------------ the JSON export
\* export_all_json has run to its return on a document with saving on and
\* text JSON and bbox JSON both enabled.
ExportedBoth ==
    /\ xpc = "returned"
    /\ xcfg.enable_save_output
    /\ xcfg.sections
    /\ xcfg.text_enabled
    /\ xcfg.bbox_enabled

\* The JSON files the current capture has written.
JsonWritten ==
    { p \in DOMAIN files : files[p].form # "image" /\ files[p].capture = triggers }

\* items is the plain array of the LineRecords of res.
IsLineArray(items, res) ==
    /\ Len(items) = Len(res)
    /\ \A k \in 1..Len(res) :
          /\ DOMAIN items[k] = {"line_index", "text", "avg_conf"}
          /\ items[k].line_index = res[k].line_index
          /\ items[k].text = res[k].text
          /\ items[k].avg_conf = res[k].avg_conf

\* items is an array of {id, text, confidence, bbox}, one per record of res,
\* in the same order.
IsBboxArray(items, res) ==
    /\ Len(items) = Len(res)
    /\ \A k \in 1..Len(res) :
          /\ DOMAIN items[k] = {"id", "text", "confidence", "bbox"}
          /\ items[k].id = k - 1
          /\ items[k].text = res[k].text
          /\ items[k].confidence = res[k].avg_conf

\* C25: when the export runs with text JSON and bbox JSON both enabled, then
\* with merge-bbox-into-text on exactly one JSON file is written for the
\* capture, of the form {results: [...], bbox: [...]}, and no bbox file;
\* with merge off the text file is the plain array of the LineRecords and a
\* separate bbox file is written, an array of {id, text, confidence, bbox}
\* with one entry per LineRecord in the same order.
C25_ExportForms ==
    ExportedBoth =>
        IF xcfg.merge_with_text_json
        THEN /\ JsonWritten = { txt_json_path }
             /\ txt_json_path.dir = "text_json.path"
             /\ bbox_json_path = txt_json_path
             /\ files[txt_json_path].form = "object"
             /\ IsLineArray(files[txt_json_path].items, xresults)
             /\ IsBboxArray(files[txt_json_path].bbox, xresults)
        ELSE /\ JsonWritten = { txt_json_path, bbox_json_path }
             /\ txt_json_path.dir = "text_json.path"
             /\ bbox_json_path.dir = "bbox_json.path"
             /\ files[txt_json_path].form = "array"
             /\ IsLineArray(files[txt_json_path].items, xresults)
             /\ files[bbox_json_path].form = "array"
             /\ IsBboxArray(files[bbox_json_path].items, xresults)

\* A merged export of two LineRecords.
C25_Witness ==
    /\ ExportedBoth
    /\ xcfg.merge_with_text_json
    /\ Len(xresults) = 2
    /\ files[txt_json_path].form = "object"

\* A separate export of two LineRecords, the bbox file one second later.
C25_WitnessSeparate ==
    /\ ExportedBoth
    /\ ~ xcfg.merge_with_text_json
    /\ Len(xresults) = 2
    /\ bbox_json_path.stamp = txt_json_path.stamp + 1

\* ------------------------------------------------ one JSON per capture
\* C28: with saving enabled each capture yields its own text JSON: the file
\* a capture's export writes is a new one, so that no earlier capture's
\* text JSON is overwritten and N captures leave N distinct files, and the
\* timestamp in its name is the one in the names of the capture's images.
C28_OwnJsonPerCapture ==
    [][(xpc = "text" /\ xpc' = "bbox" /\ xcfg.text_enabled) =>
          /\ txt_json_path' \notin DOMAIN files
          /\ txt_json_path'.stamp = ts
          /\ OriginPath(txt_json_path'.stamp) \in DOMAIN files
          /\ files[OriginPath(txt_json_path'.stamp)].capture = triggers]_vars

\* ---------------------------------------------------------------------
\* The line text and the word-gap threshold
\* ---------------------------------------------------------------------

\* Word-gap thresholds below, at and above the horizontal gaps that occur
\* between the modelled boxes (10 and 30 pixels), the default among them.
XGapProbes == {1, 11, DefaultXGapThresh, 31, 81}

\* The texts of a line's members, each separated from the next by one space.
RECURSIVE SpacedTexts(_)
SpacedTexts(line) ==
    IF Len(line) = 1 THEN line[1].text
    ELSE SpacedTexts(Front(line)) \o << " " >> \o Last(line).text

\* C30: the text of every line record is the texts of the line's members in
\* x_min order separated by single spaces, and the merger gives the same
\* texts for the same detections and y_thresh at every word-gap threshold:
\* x_gap_thresh decides where a word-group ends and not what the text is.
C30_TextIndependentOfXGap ==
    Merged =>
       /\ \A k \in 1..Len(merged_results) :
             LET line == grouped_lines[k]
             IN  /\ \A j \in 2..Len(line) : line[j - 1].x_min <= line[j].x_min
                 /\ merged_results[k].text = SpacedTexts(line)
       /\ \A g \in XGapProbes :
             LET other == MergeWordsWithBoxes(filtered, y_thresh, g)
             IN  /\ Len(other) = Len(merged_results)
                 /\ \A k \in 1..Len(other) :
                       other[k].text = merged_results[k].text

\* A line of three words that is two word-groups at the threshold of the
\* call, three at a threshold of 1 and one at a threshold of 81.
C30_Witness ==
    /\ Merged
    /\ \E k \in 1..Len(grouped_lines) :
          /\ Len(grouped_lines[k]) = 3
          /\ Len(line_words[k]) = 2
          /\ Len(MergeLineWords(grouped_lines[k], 1)) = 3
          /\ Len(MergeLineWords(grouped_lines[k], 81)) = 1

\* ---------------------------------------------------------------------
\* The low-confidence verdict
\* ---------------------------------------------------------------------

\* The merger has returned the records of the capture.
Averaged == fpc \in {"log", "done"}
\* The end of the capture has been reached with at least one record.
Judged == fpc = "done" /\ fresults # << >>
AtLeast64(x, threshold) == ~Less64(x, threshold)

\* C29 as claimed: only detections at or above conf_threshold reach the
\* merger, every record's avg_conf and the overall mean are at or above
\* conf_threshold, and the verdict printed is never "low-confidence".
C29_NeverLowConfidence ==
    /\ Averaged =>
          \A i \in 1..Len(fresults) :
             /\ \A j \in 1..Len(fresults[i].confs) :
                   AtLeast64(fresults[i].confs[j], fcfg.conf_threshold)
             /\ AtLeast64(fresults[i].avg_conf, fcfg.conf_threshold)
    /\ Judged =>
          /\ AtLeast64(foverall_conf, fcfg.conf_threshold)
          /\ fverdict # "low_confidence"

\* C29 as amended: only detections at or above conf_threshold reach the
\* merger; the avg_conf of a record of one or two members is at or above
\* conf_threshold; and when there are one or two records and the avg_conf
\* of each is at or above conf_threshold, so is the overall mean, and the
\* verdict printed is not "low-confidence".
C29_NeverLowConfidenceUpToTwo ==
    /\ Averaged =>
          \A i \in 1..Len(fresults) :
             /\ \A j \in 1..Len(fresults[i].confs) :
                   AtLeast64(fresults[i].confs[j], fcfg.conf_threshold)
             /\ Len(fresults[i].confs) <= 2 =>
                   AtLeast64(fresults[i].avg_conf, fcfg.conf_threshold)
    /\ ( /\ Judged
         /\ Len(fresults) <= 2
         /\ \A i \in 1..Len(fresults) :
               AtLeast64(fresults[i].avg_conf, fcfg.conf_threshold) ) =>
          /\ AtLeast64(foverall_conf, fcfg.conf_threshold)
          /\ fverdict # "low_confidence"

\* A sharp frame with three detections at exactly the threshold of 0.7,
\* two of them in one line: two records, and the verdict is "good".
C29_Witness ==
    /\ Judged
    /\ fcfg.conf_threshold = Conf07
    /\ fcfg.enable_console_log
    /\ fdef_score >= fcfg.definition_threshold
    /\ Len(ffiltered) = 3
    /\ Len(fresults) = 2
    /\ \A i \in 1..2 : fresults[i].avg_conf = Conf07
    /\ foverall_conf = Conf07
    /\ fverdict = "good"
====
